---- MODULE Spec2Model ----
(***************************************************************************)
(* Transaction-construction layer of the cash-link clients.               *)
(*                                                                         *)
(* The module models the builders of the five client revisions the        *)
(* repository holds (CashClient, three CashLinkClient revisions and        *)
(* EscrowClient) as whole-handler actions over one on-chain account: the   *)
(* account is read, preconditions are applied, token accounts are          *)
(* resolved, instructions are emitted and the instruction list is          *)
(* assembled into a legacy or versioned payload.  Every call records the   *)
(* request, the calls it made to the network client, and its outcome.     *)
(***************************************************************************)
EXTENDS Integers, Sequences, FiniteSets, TLC

VARIABLES
  client,   \* the client revision under construction of the requests
  link,     \* the on-chain record at the derived link (or escrow) address
  atas,     \* holders whose associated token account exists on chain
  last,     \* the builder call that has just completed (or NoCall)
  wire,     \* the send call made with the payload in hand (or NoSend)
  running   \* the redeem calls in progress side by side, one per caller

vars == <<client, link, atas, last, wire, running>>

-----------------------------------------------------------------------------
(* Bounds *)

MaxRedemptions == 2

\* Number of redeem calls that may be in progress at once.
MaxCalls == 2

-----------------------------------------------------------------------------
(* Error messages and constants of the clients *)

FAILED_TO_FIND_ACCOUNT == "Failed to find account"
ACCOUNT_ALREADY_CANCELED == "Account already canceled"
ACCOUNT_ALREADY_SETTLED == "Account already settled"
ACCOUNT_NOT_INITIALIZED_OR_SETTLED == "Account not initialized or settled"
ACCOUNT_NOT_CANCELED == "Account not canceled"
ACCOUNT_HAS_REDEMPTIONS == "Account has redemptions"
TRANSACTION_SEND_ERROR == "Transaction send error"
FINGERPRINT_NOT_FOUND == "Fingerprint required"
REFERRER_WALLET == "Referrer required"
INVALID_SIGNATURE == "Invalid signature"

kTokenProgramRent == 2039280

\* A JavaScript TypeError raised by the runtime or by the web3 library.
TYPE_ERROR == "TypeError"

\* What Message.from throws for bytes that hold a versioned message.
VERSIONED_MESSAGE ==
  "Versioned messages must be deserialized with VersionedMessage.deserialize()"

-----------------------------------------------------------------------------
(* Client revisions and the state enums of their account records *)

Clients ==
  {"CashClient", "CashLinkClient", "CashLinkClientRedemption",
   "CashLinkClientReference", "EscrowClient"}

CashState ==
  [Initialized |-> "Initialized", Redeemed |-> "Redeemed",
   Redeeming |-> "Redeeming", Canceled |-> "Canceled"]

CashLinkState ==
  [Initialized |-> "Initialized", Redeemed |-> "Redeemed",
   Redeeming |-> "Redeeming", Expired |-> "Expired"]

CashLinkStateReference ==
  [Uninitialized |-> "Uninitialized", Initialized |-> "Initialized",
   Redeemed |-> "Redeemed", Redeeming |-> "Redeeming", Canceled |-> "Canceled"]

EscrowState ==
  [Uninitialized |-> "Uninitialized", Initialized |-> "Initialized",
   Settled |-> "Settled", Canceled |-> "Canceled", Closed |-> "Closed"]

\* The state a record takes when the program cancels it, per revision.
CanceledStateOf(c) ==
  IF c \in {"CashLinkClient", "CashLinkClientRedemption"}
  THEN CashLinkState.Expired ELSE "Canceled"

\* Revisions whose record carries the fingerprintEnabled flag.
HasFingerprintFlag(c) ==
  c \in {"CashClient", "CashLinkClient", "CashLinkClientRedemption"}

\* Revisions whose builders branch on the native asset.
HandlesNative(c) ==
  c \in {"CashClient", "CashLinkClientReference", "EscrowClient"}

\* Holders whose associated token account a revision resolves on demand.
HoldersOf(c) ==
  CASE c = "CashLinkClientReference" -> {"wallet", "feeWallet", "owner"}
    [] c = "EscrowClient" -> {"payer"}
    [] OTHER -> {"owner", "feeWallet", "feePayer"}

NoLink ==
  [exists |-> FALSE, state |-> "Uninitialized", totalRedemptions |-> 0,
   maxNumRedemptions |-> 0, fingerprintEnabled |-> FALSE, native |-> FALSE,
   passKey |-> FALSE, address |-> ""]

-----------------------------------------------------------------------------
(* Addresses, keys and instructions *)

Reference == "ref"

\* The references a request may name, and the escrow addresses.
References == {"ref", "ref2"}
EscrowAddresses == {"escrow", "escrow2"}

\* findProgramAddressSync: the address and the bump the seeds determine.
findProgramAddressSync ==
  [ref |-> [address |-> "cash_ref", bump |-> 254],
   ref2 |-> [address |-> "cash_ref2", bump |-> 255],
   passKey |-> [address |-> "cash_passKey", bump |-> 251]]

\* Deterministic derivation of the link address and its bump from the seeds.
cashAccount(reference) ==
  [address |-> findProgramAddressSync[reference].address,
   bump |-> findProgramAddressSync[reference].bump,
   seeds |-> <<"cash", reference>>]

AssociatedToken ==
  [owner |-> "ata_owner", feeWallet |-> "ata_feeWallet",
   feePayer |-> "ata_feePayer", wallet |-> "ata_wallet",
   cash_ref |-> "ata_cash_ref", cash_ref2 |-> "ata_cash_ref2",
   cash_passKey |-> "ata_cash_passKey", escrow |-> "ata_escrow",
   escrow2 |-> "ata_escrow2", referrer |-> "ata_referrer", payer |-> "ata_payer"]

getAssociatedTokenAddressSync(holder) == AssociatedToken[holder]

Key(p, s, w) == [pubkey |-> p, isSigner |-> s, isWritable |-> w]

Ix(program, name, keys, data) ==
  [programId |-> program, name |-> name, keys |-> keys, data |-> data]

\* Borsh option: absent is the empty sequence, present carries the value.
None == <<>>
Some(v) == <<v>>

\* value ?? 0: an optional request value the builder defaults to zero.
orZero(option) == IF option = None THEN 0 ELSE option[1]

\* A boolean written as a Borsh u8: the buffer coerces it to 0 or 1.
u8(flag) == IF flag THEN 1 ELSE 0

SetComputeUnitLimit(units) ==
  Ix("ComputeBudget", "SetComputeUnitLimit", <<>>, [units |-> units])

SetComputeUnitPrice(microLamports) ==
  Ix("ComputeBudget", "SetComputeUnitPrice", <<>>, [microLamports |-> microLamports])

memoInstruction(signer) ==
  Ix("Memo", "Memo", <<Key(signer, TRUE, FALSE)>>, [memo |-> "memo"])

NoArgs == [args |-> "none"]

\* Values a request may carry for the optional compute settings (0: absent).
ComputeBudgets == {0, 200000}
ComputeUnitPrices == {0, 1000}
ReferrerFees == {0, 50}

-----------------------------------------------------------------------------
(* Results of a builder and of a whole call *)

NoPayload ==
  [version |-> "none", feePayer |-> "", instructions |-> <<>>,
   signatures |-> {}, lookupTables |-> <<>>]

\* A builder (…Transaction) either throws or returns instructions and signers.
Built(instructions, signers, trace, created) ==
  [error |-> "", instructions |-> instructions, signers |-> signers,
   trace |-> trace, created |-> created]

Throw(message, trace, created) ==
  [error |-> message, instructions |-> <<>>, signers |-> <<>>,
   trace |-> trace, created |-> created]

\* The outcome of a whole call.  built is the instruction list as the builder
\* left it, instructions and signers are the lists handed to the assembler,
\* payload is what the caller receives, trace lists the calls made to the
\* network client in order, created the token accounts created on the way.
Outcome(error, built, instructions, signers, payload, trace, created, sent) ==
  [error |-> error, built |-> built, instructions |-> instructions,
   signers |-> signers, payload |-> payload, trace |-> trace,
   created |-> created, sent |-> sent]

Failed(message, trace, created) ==
  Outcome(message, <<>>, <<>>, <<>>, NoPayload, trace, created, FALSE)

SeqToSet(s) == {s[i] : i \in 1..Len(s)}

\* The signer keys of a compiled message: the fee payer and every signer key.
RequiredSigners(instructions) ==
  {"feePayer"} \cup
  UNION {{instructions[i].keys[j].pubkey :
            j \in {k \in 1..Len(instructions[i].keys) : instructions[i].keys[k].isSigner}} :
         i \in 1..Len(instructions)}

-----------------------------------------------------------------------------
(* Reading accounts *)

\* What connection.getAccountInfo does for the link address during a call:
\* it answers with the record as it stands ("ok"), throws a transport error
\* ("throws"), or answers with an account another program owns ("foreign") or
\* whose bytes do not decode ("garbled").
Fetches == {"ok", "throws", "foreign", "garbled"}

\* _getCashAccount / _getCashLinkAccount / _getEscrowAccount: the decoded
\* record, or null when the account is absent and whenever the try block
\* throws (the transport error, the decoder's, the owner check's).
ERROR_INVALID_OWNER == "Invalid owner"
TRANSPORT_ERROR == "failed to get info about account"
DECODE_ERROR == "deserialize failed"

\* connection.getAccountInfo: the transport error it throws, if any.
getAccountInfo(input) ==
  IF input.fetch = "throws" THEN TRANSPORT_ERROR ELSE ""

\* Cash.from / CashLink.from / Escrow.from: the constructor decodes the bytes
\* and then checks the owning program; what it throws, if anything.
Cash_from(input) ==
  IF input.fetch = "garbled" THEN DECODE_ERROR
  ELSE IF input.fetch = "foreign" THEN ERROR_INVALID_OWNER
  ELSE ""

\* _getCashAccount / _getCashLinkAccount / _getEscrowAccount: the decoded
\* record, or null when the account is absent and whenever the try block
\* throws (the transport error, the decoder's, the owner check's).
_getCashAccount(l, address, input) ==
  IF getAccountInfo(input) # "" THEN NoLink
  ELSE IF input.fetch = "ok" /\ (~l.exists \/ l.address # address) THEN NoLink
  ELSE IF Cash_from(input) # "" THEN NoLink
  ELSE l

\* spl.getAccount wrapped by _getAccount: null when the token account is absent.
_getAccount(a, holder) == holder \in a

\* A faulty variant that sends the create transaction whether or not the
\* account exists.
getOrCreateAssociatedAccount_always(a, holder) ==
  [address |-> getAssociatedTokenAddressSync(holder),
   trace |-> <<"getAccount", "getLatestBlockhashAndContext",
               "sendAndConfirmTransaction">>,
   created |-> {holder} \ a]

\* getOrCreateAssociatedAccount: the canonical address; when the account is
\* absent one create transaction is sent and confirmed first.
getOrCreateAssociatedAccount(a, holder) ==
  IF _getAccount(a, holder)
  THEN [address |-> getAssociatedTokenAddressSync(holder),
        trace |-> <<"getAccount">>, created |-> {}]
  ELSE [address |-> getAssociatedTokenAddressSync(holder),
        trace |-> <<"getAccount", "getLatestBlockhashAndContext",
                    "sendAndConfirmTransaction">>,
        created |-> {holder}]

-----------------------------------------------------------------------------
(* Assembly of the instruction list into a payload *)

\* The compute-budget instructions a call adds for the request's settings.
ComputeBudgetInstructions(input) ==
  (IF input.computeBudget # 0
     THEN <<SetComputeUnitLimit(input.computeBudget)>> ELSE <<>>)
  \o (IF input.computeUnitPrice # 0
        THEN <<SetComputeUnitPrice(input.computeUnitPrice)>> ELSE <<>>)

Reverse(seq) == [i \in 1..Len(seq) |-> seq[Len(seq) + 1 - i]]

\* A faulty legacy assembly that adds the instructions last to first.
legacyTransaction_reversed(built, instructions, signers, trace, created) ==
  Outcome("", built, instructions, signers,
          [version |-> "legacy", feePayer |-> "feePayer",
           instructions |-> Reverse(instructions),
           signatures |-> SeqToSet(signers), lookupTables |-> <<>>],
          trace, created, FALSE)

\* Transaction.add(...instructions); partialSign(...signers);
\* serialize({requireAllSignatures: false}).
legacyTransaction(built, instructions, signers, trace, created) ==
  IF ~(SeqToSet(signers) \subseteq RequiredSigners(instructions))
  THEN Outcome("unknown signer", built, instructions, signers, NoPayload,
               trace, created, FALSE)
  ELSE Outcome("", built, instructions, signers,
               [version |-> "legacy", feePayer |-> "feePayer",
                instructions |-> instructions,
                signatures |-> SeqToSet(signers), lookupTables |-> <<>>],
               trace, created, FALSE)

\* A faulty versioned assembly that signs with the fee payer alone.
versionedTransaction_feePayerOnly(input, built, instructions, signers, trace, created) ==
  IF ~input.addressLookupTable
  THEN Outcome(TYPE_ERROR, built, instructions, signers, NoPayload,
               trace, created, FALSE)
  ELSE Outcome("", built, instructions, signers,
               [version |-> "v0", feePayer |-> "feePayer",
                instructions |-> instructions, signatures |-> {"feePayer"},
                lookupTables |-> <<"table">>],
               trace \o <<"getAddressLookupTable">>, created, FALSE)

\* TransactionMessage.compileToV0Message([lookUpTable]) and
\* VersionedTransaction.sign(signers).  The table is fetched only when the
\* request names one; otherwise the list holds undefined, whose state the
\* compiler dereferences.
versionedTransaction(input, built, instructions, signers, trace, created) ==
  LET lookUpTable == IF input.addressLookupTable THEN "table" ELSE "undefined"
      t == IF input.addressLookupTable
           THEN trace \o <<"getAddressLookupTable">> ELSE trace
  IN IF lookUpTable = "undefined"
     THEN Outcome(TYPE_ERROR, built, instructions, signers, NoPayload,
                  t, created, FALSE)
     ELSE IF ~(SeqToSet(signers) \subseteq RequiredSigners(instructions))
     THEN Outcome("Cannot sign with non signer key", built, instructions,
                  signers, NoPayload, t, created, FALSE)
     ELSE Outcome("", built, instructions, signers,
                  [version |-> "v0", feePayer |-> "feePayer",
                   instructions |-> instructions,
                   signatures |-> SeqToSet(signers),
                   lookupTables |-> <<lookUpTable>>],
                  t, created, FALSE)

\* The tail every CashClient and pass-key CashLinkClient call shares: the
\* compute-budget instructions are pushed onto the builder's list, the
\* blockhash is fetched, the fee payer and the authority join the signers,
\* and the list is assembled in the requested mode.
Assemble(input, b) ==
  LET instructions == b.instructions \o ComputeBudgetInstructions(input)
      signers == b.signers \o <<"feePayer", "authority">>
      trace == b.trace \o <<"getLatestBlockhashAndContext">>
  IN IF input.asLegacyTransaction
     THEN legacyTransaction(b.instructions, instructions, signers, trace, b.created)
     ELSE versionedTransaction(input, b.instructions, instructions, signers,
                               trace, b.created)

-----------------------------------------------------------------------------
(* CashClient: src/src/cash/index.ts *)

CashClient_cancelInstruction(cash, ownerToken, cashBump, cashReference) ==
  Ix("Cash", "Cancel",
     <<Key("authority", TRUE, FALSE), Key(cash, FALSE, TRUE),
       Key(ownerToken, FALSE, TRUE), Key("feePayer", FALSE, TRUE),
       Key(getAssociatedTokenAddressSync(cash), FALSE, TRUE),
       Key("mint", FALSE, FALSE), Key("tokenProgramId", FALSE, FALSE),
       Key("SystemProgram", FALSE, FALSE)>>,
     [cashBump |-> cashBump, cashReference |-> cashReference])

CashClient_cancelTransaction(cash, cashBump, input) ==
  IF cash.state = CashState.Canceled
  THEN Throw(ACCOUNT_ALREADY_CANCELED, <<>>, {})
  ELSE IF cash.state = CashState.Redeemed
  THEN Throw(ACCOUNT_ALREADY_SETTLED, <<>>, {})
  ELSE LET ownerTokenAccount ==
             IF cash.native THEN "owner" ELSE getAssociatedTokenAddressSync("owner")
       IN Built(<<CashClient_cancelInstruction(cash.address, ownerTokenAccount,
                                                cashBump, input.cashReference)>>,
                <<>>, <<>>, {})

CashClient_closeInstruction(cash) ==
  Ix("Cash", "Close",
     <<Key("authority", TRUE, FALSE), Key(cash, FALSE, TRUE),
       Key("feePayer", FALSE, TRUE), Key("SystemProgram", FALSE, FALSE)>>,
     NoArgs)

CashClient_cancel(l, a, input) ==
  LET cash == _getCashAccount(l, cashAccount(input.cashReference).address, input)
      t0 == <<"getAccountInfo">>
  IN IF ~cash.exists THEN Failed(FAILED_TO_FIND_ACCOUNT, t0, {})
     ELSE LET b == CashClient_cancelTransaction(cash, cashAccount(input.cashReference).bump, input)
          IN IF b.error # "" THEN Failed(b.error, t0 \o b.trace, b.created)
             ELSE Assemble(input, [b EXCEPT !.trace = t0 \o b.trace])

\* A faulty variant that appends the close instruction whatever the count.
CashClient_appendClose_always(cash, instructions) ==
  instructions \o <<CashClient_closeInstruction(cash.address)>>

\* The close instruction joins the list only when no redemption has happened.
CashClient_appendClose(cash, instructions) ==
  IF cash.totalRedemptions = 0
  THEN instructions \o <<CashClient_closeInstruction(cash.address)>>
  ELSE instructions

\* A variant that closes a canceled account with no redemptions directly.
CashClient_cancelAndClose_closeCanceled(l, a, input) ==
  LET cash == _getCashAccount(l, cashAccount(input.cashReference).address, input)
      t0 == <<"getAccountInfo">>
  IN IF ~cash.exists THEN Failed(FAILED_TO_FIND_ACCOUNT, t0, {})
     ELSE IF cash.state = CashState.Canceled /\ cash.totalRedemptions = 0
     THEN Assemble(input, Built(<<CashClient_closeInstruction(cash.address)>>,
                                <<>>, t0, {}))
     ELSE LET b == CashClient_cancelTransaction(cash, cashAccount(input.cashReference).bump, input)
          IN IF b.error # "" THEN Failed(b.error, t0 \o b.trace, b.created)
             ELSE Assemble(input,
                    [b EXCEPT !.trace = t0 \o b.trace,
                              !.instructions = CashClient_appendClose(cash, b.instructions)])

CashClient_cancelAndClose(l, a, input) ==
  LET cash == _getCashAccount(l, cashAccount(input.cashReference).address, input)
      t0 == <<"getAccountInfo">>
  IN IF ~cash.exists THEN Failed(FAILED_TO_FIND_ACCOUNT, t0, {})
     ELSE LET b == CashClient_cancelTransaction(cash, cashAccount(input.cashReference).bump, input)
          IN IF b.error # "" THEN Failed(b.error, t0 \o b.trace, b.created)
             ELSE Assemble(input,
                    [b EXCEPT !.trace = t0 \o b.trace,
                              !.instructions = CashClient_appendClose(cash, b.instructions)])

CashClient_close(l, a, input) ==
  LET cash == _getCashAccount(l, cashAccount(input.cashReference).address, input)
      t0 == <<"getAccountInfo">>
  IN IF ~cash.exists THEN Failed(FAILED_TO_FIND_ACCOUNT, t0, {})
     ELSE IF cash.state # CashState.Canceled THEN Failed(ACCOUNT_NOT_CANCELED, t0, {})
     ELSE IF cash.totalRedemptions # 0 THEN Failed(ACCOUNT_HAS_REDEMPTIONS, t0, {})
     ELSE Assemble(input, Built(<<CashClient_closeInstruction(cashAccount(input.cashReference).address)>>,
                         <<>>, t0, {}))

\* A faulty variant that lists the lock key after the mint.
CashClient_initInstruction_lockKeyAfterMint(input, cash, cashBump) ==
  Ix("Cash", "Init",
     <<Key("authority", TRUE, FALSE), Key("owner", TRUE, FALSE),
       Key("feePayer", TRUE, TRUE), Key(cash, FALSE, TRUE),
       Key("mint", FALSE, FALSE)>>
     \o (IF input.passKey THEN <<Key("passKey", FALSE, FALSE)>> ELSE <<>>)
     \o <<Key(getAssociatedTokenAddressSync(cash), FALSE, TRUE),
          Key(getAssociatedTokenAddressSync("owner"), FALSE, TRUE),
          Key("SysvarRent", FALSE, FALSE), Key("SystemProgram", FALSE, FALSE),
          Key("tokenProgramId", FALSE, FALSE),
          Key("AssociatedTokenProgram", FALSE, FALSE)>>,
     [amount |-> input.init.amount, feeBps |-> orZero(input.init.feeBps),
      networkFee |-> orZero(input.init.networkFee),
      baseFeeToRedeem |-> orZero(input.init.baseFeeToRedeem),
      rentFeeToRedeem |-> orZero(input.init.rentFeeToRedeem),
      cashBump |-> cashBump,
      distributionType |-> input.init.distributionType,
      maxNumRedemptions |-> input.init.maxNumRedemptions,
      minAmount |-> input.init.minAmount, fingerprintEnabled |-> None,
      cashReference |-> input.cashReference, isLocked |-> u8(input.passKey)])

\* InitCashArgs.serialize is handed no fingerprintEnabled property, so the
\* option the schema holds for it is written as None.
CashClient_initInstruction(input, cash, cashBump) ==
  Ix("Cash", "Init",
     <<Key("authority", TRUE, FALSE), Key("owner", TRUE, FALSE),
       Key("feePayer", TRUE, TRUE), Key(cash, FALSE, TRUE)>>
     \o (IF input.passKey THEN <<Key("passKey", FALSE, FALSE)>> ELSE <<>>)
     \o <<Key("mint", FALSE, FALSE),
          Key(getAssociatedTokenAddressSync(cash), FALSE, TRUE),
          Key(getAssociatedTokenAddressSync("owner"), FALSE, TRUE),
          Key("SysvarRent", FALSE, FALSE), Key("SystemProgram", FALSE, FALSE),
          Key("tokenProgramId", FALSE, FALSE),
          Key("AssociatedTokenProgram", FALSE, FALSE)>>,
     [amount |-> input.init.amount, feeBps |-> orZero(input.init.feeBps),
      networkFee |-> orZero(input.init.networkFee),
      baseFeeToRedeem |-> orZero(input.init.baseFeeToRedeem),
      rentFeeToRedeem |-> orZero(input.init.rentFeeToRedeem),
      cashBump |-> cashBump,
      distributionType |-> input.init.distributionType,
      maxNumRedemptions |-> input.init.maxNumRedemptions,
      minAmount |-> input.init.minAmount, fingerprintEnabled |-> None,
      cashReference |-> input.cashReference, isLocked |-> u8(input.passKey)])

CashClient_initializeTransaction(input) ==
  Built(<<CashClient_initInstruction(input,
            cashAccount(input.cashReference).address,
            cashAccount(input.cashReference).bump)>>,
        <<>>, <<>>, {})

CashClient_initialize(l, a, input) ==
  Assemble(input, CashClient_initializeTransaction(input))

\* RedeemCashLinkArgs.serialize is handed neither referrerFeeBps nor
\* redemptionBump nor (from redeemTransaction) rateUsd: the options are
\* written as None and the u8 as zero.
CashClient_redeemInstruction(input, p) ==
  Ix("Cash", "Redeem",
     <<Key("authority", TRUE, FALSE), Key("wallet", FALSE, TRUE),
       Key(p.platformFeeToken, FALSE, TRUE), Key(p.cash, FALSE, TRUE)>>
     \o (IF input.passKey THEN <<Key("passKey", TRUE, FALSE)>> ELSE <<>>)
     \o <<Key(p.ownerToken, FALSE, TRUE), Key("feePayer", TRUE, TRUE),
          Key(p.feePayerToken, FALSE, TRUE), Key(p.vaultToken, FALSE, TRUE),
          Key(p.walletToken, FALSE, TRUE), Key("mint", FALSE, FALSE),
          Key("SysvarClock", FALSE, FALSE), Key("SysvarRent", FALSE, FALSE),
          Key("SysvarSlotHashes", FALSE, FALSE),
          Key("tokenProgramId", FALSE, FALSE)>>
     \o (IF input.referrerFeeBps # 0
           THEN <<Key("referrer", FALSE, TRUE),
                  Key(getAssociatedTokenAddressSync("referrer"), FALSE, TRUE)>>
           ELSE <<>>)
     \o <<Key("AssociatedTokenProgram", FALSE, FALSE)>>,
     [cashBump |-> p.cashBump, cashReference |-> input.cashReference,
      referrerFeeBps |-> None, refereeFeeBps |-> input.refereeFeeBps,
      weightPpm |-> input.weightPpm, rateUsd |-> None, redemptionBump |-> 0])

\* The instructions redeemTransaction starts its list with: for the native
\* asset an ephemeral token account is created, funded by the fee payer, and
\* initialized for the claimant wallet.
CashClient_wrapInstructions(isNativeToken) ==
  IF isNativeToken
  THEN <<Ix("SystemProgram", "CreateAccount",
            <<Key("feePayer", TRUE, TRUE), Key("unwrapTokenAccount", TRUE, TRUE)>>,
            [lamports |-> kTokenProgramRent]),
         Ix("tokenProgramId", "InitializeAccount3",
            <<Key("unwrapTokenAccount", FALSE, TRUE), Key("mint", FALSE, FALSE)>>,
            [owner |-> "wallet"])>>
  ELSE <<>>

\* A faulty variant that leaves the ephemeral account open.
CashClient_unwrapInstructions_never(isNativeToken) == <<>>

\* A faulty variant whose sweep returns one lamport less than was funded.
CashClient_unwrapInstructions_short(isNativeToken) ==
  IF isNativeToken
  THEN <<Ix("tokenProgramId", "CloseAccount",
            <<Key("unwrapTokenAccount", FALSE, TRUE), Key("wallet", FALSE, TRUE),
              Key("wallet", TRUE, FALSE)>>,
            NoArgs),
         Ix("SystemProgram", "Transfer",
            <<Key("wallet", TRUE, TRUE), Key("feePayer", FALSE, TRUE)>>,
            [lamports |-> kTokenProgramRent - 1])>>
  ELSE <<>>

\* The instructions pushed after the redeem instruction: for the native
\* asset the ephemeral account is closed to the claimant wallet, which then
\* transfers the rent back to the fee payer.
CashClient_unwrapInstructions(isNativeToken) ==
  IF isNativeToken
  THEN <<Ix("tokenProgramId", "CloseAccount",
            <<Key("unwrapTokenAccount", FALSE, TRUE), Key("wallet", FALSE, TRUE),
              Key("wallet", TRUE, FALSE)>>,
            NoArgs),
         Ix("SystemProgram", "Transfer",
            <<Key("wallet", TRUE, TRUE), Key("feePayer", FALSE, TRUE)>>,
            [lamports |-> kTokenProgramRent])>>
  ELSE <<>>

\* A faulty variant that lets a fee without a referrer through.
CashClient_redeemPreconditions_none(cash, input) == ""

\* A variant that compares the request's pass key with the recorded one.
CashClient_redeemPreconditions_passKeyCompared(cash, input) ==
  IF cash.passKey # input.passKey THEN INVALID_SIGNATURE
  ELSE IF input.referrerFeeBps # 0 /\ ~input.referrer THEN REFERRER_WALLET ELSE ""

\* A variant that also refuses a canceled or fully redeemed account.
CashClient_redeemPreconditions_live(cash, input) ==
  IF cash.state = CashState.Canceled THEN ACCOUNT_ALREADY_CANCELED
  ELSE IF cash.state = CashState.Redeemed THEN ACCOUNT_ALREADY_SETTLED
  ELSE IF input.referrerFeeBps # 0 /\ ~input.referrer THEN REFERRER_WALLET ELSE ""

\* The checks redeemTransaction applies to the request once the account is
\* loaded: the message it throws, or the empty string.
CashClient_redeemPreconditions(cash, input) ==
  IF input.referrerFeeBps # 0 /\ ~input.referrer THEN REFERRER_WALLET ELSE ""

CashClient_redeemTransaction(l, a, input) ==
  LET cash == _getCashAccount(l, cashAccount(input.cashReference).address, input)
      t0 == <<"getAccountInfo">>
  IN IF ~cash.exists THEN Throw(FAILED_TO_FIND_ACCOUNT, t0, {})
     ELSE IF CashClient_redeemPreconditions(cash, input) # ""
     THEN Throw(CashClient_redeemPreconditions(cash, input), t0, {})
     ELSE
       LET isNativeToken == cash.native
           ownerTokenAccount ==
             IF isNativeToken
             THEN [address |-> "owner", trace |-> <<>>, created |-> {}]
             ELSE getOrCreateAssociatedAccount(a, "owner")
           a1 == a \cup ownerTokenAccount.created
           feeTokenAccount == getOrCreateAssociatedAccount(a1, "feeWallet")
           a2 == a1 \cup feeTokenAccount.created
           feePayerTokenAccount == getOrCreateAssociatedAccount(a2, "feePayer")
           redeemInstruction ==
             CashClient_redeemInstruction(input,
               [cashBump |-> cashAccount(input.cashReference).bump,
                cash |-> cash.address,
                vaultToken |-> getAssociatedTokenAddressSync(
                                 cashAccount(input.cashReference).address),
                walletToken |-> IF isNativeToken THEN "unwrapTokenAccount"
                                ELSE getAssociatedTokenAddressSync("wallet"),
                platformFeeToken |-> feeTokenAccount.address,
                ownerToken |-> ownerTokenAccount.address,
                feePayerToken |-> feePayerTokenAccount.address])
       IN Built(CashClient_wrapInstructions(isNativeToken)
                  \o <<redeemInstruction>>
                  \o CashClient_unwrapInstructions(isNativeToken),
                IF isNativeToken THEN <<"unwrapTokenAccount">> ELSE <<>>,
                t0 \o ownerTokenAccount.trace \o feeTokenAccount.trace
                   \o feePayerTokenAccount.trace,
                ownerTokenAccount.created \cup feeTokenAccount.created
                   \cup feePayerTokenAccount.created)

CashClient_redeem(l, a, input) ==
  LET b == CashClient_redeemTransaction(l, a, input)
  IN IF b.error # "" THEN Failed(b.error, b.trace, b.created)
     ELSE Assemble(input, b)

-----------------------------------------------------------------------------
(* CashLinkClient, pass-key revision: src/src/cash_link/index.ts 64-1044 *)

CashLinkClient_cancelInstruction(cashLinkBump) ==
  Ix("Cash", "Cancel",
     <<Key("authority", TRUE, FALSE), Key(cashAccount("passKey").address, FALSE, TRUE),
       Key("passKey", FALSE, FALSE),
       Key(getAssociatedTokenAddressSync("owner"), FALSE, TRUE),
       Key("feePayer", FALSE, TRUE),
       Key(getAssociatedTokenAddressSync(cashAccount("passKey").address), FALSE, TRUE),
       Key("mint", FALSE, FALSE), Key("SysvarClock", FALSE, FALSE),
       Key("tokenProgramId", FALSE, FALSE), Key("SystemProgram", FALSE, FALSE)>>,
     [cashLinkBump |-> cashLinkBump])

CashLinkClient_cancelTransaction(cashLink, cashLinkBump) ==
  IF cashLink.state = CashLinkState.Expired
  THEN Throw(ACCOUNT_ALREADY_CANCELED, <<>>, {})
  ELSE IF cashLink.state = CashLinkState.Redeemed
  THEN Throw(ACCOUNT_ALREADY_SETTLED, <<>>, {})
  ELSE Built(<<CashLinkClient_cancelInstruction(cashLinkBump)>>, <<>>, <<>>, {})

CashLinkClient_closeInstruction ==
  Ix("Cash", "Close",
     <<Key("authority", TRUE, FALSE), Key(cashAccount("passKey").address, FALSE, TRUE),
       Key("feePayer", FALSE, TRUE), Key("SystemProgram", FALSE, FALSE)>>,
     NoArgs)

CashLinkClient_cancel(l, a, input) ==
  LET cashLink == _getCashAccount(l, cashAccount("passKey").address, input)
      t0 == <<"getAccountInfo">>
  IN IF ~cashLink.exists THEN Failed(FAILED_TO_FIND_ACCOUNT, t0, {})
     ELSE LET b == CashLinkClient_cancelTransaction(cashLink, cashAccount("passKey").bump)
          IN IF b.error # "" THEN Failed(b.error, t0 \o b.trace, b.created)
             ELSE Assemble(input, [b EXCEPT !.trace = t0 \o b.trace])

CashLinkClient_cancelAndClose(l, a, input) ==
  LET cashLink == _getCashAccount(l, cashAccount("passKey").address, input)
      t0 == <<"getAccountInfo">>
  IN IF ~cashLink.exists THEN Failed(FAILED_TO_FIND_ACCOUNT, t0, {})
     ELSE LET b == CashLinkClient_cancelTransaction(cashLink, cashAccount("passKey").bump)
          IN IF b.error # "" THEN Failed(b.error, t0 \o b.trace, b.created)
             ELSE Assemble(input,
                    [b EXCEPT !.trace = t0 \o b.trace,
                              !.instructions =
                                 IF cashLink.totalRedemptions = 0
                                 THEN b.instructions \o <<CashLinkClient_closeInstruction>>
                                 ELSE b.instructions])

CashLinkClient_close(l, a, input) ==
  LET cashLink == _getCashAccount(l, cashAccount("passKey").address, input)
      t0 == <<"getAccountInfo">>
  IN IF ~cashLink.exists THEN Failed(FAILED_TO_FIND_ACCOUNT, t0, {})
     ELSE IF cashLink.state # CashLinkState.Expired THEN Failed(ACCOUNT_NOT_CANCELED, t0, {})
     ELSE IF cashLink.totalRedemptions # 0 THEN Failed(ACCOUNT_HAS_REDEMPTIONS, t0, {})
     ELSE Assemble(input, Built(<<CashLinkClient_closeInstruction>>, <<>>, t0, {}))

CashLinkClient_initInstruction(input, cashLinkBump) ==
  Ix("Cash", "Init",
     <<Key("authority", TRUE, FALSE), Key("owner", TRUE, FALSE),
       Key("feePayer", TRUE, TRUE), Key(cashAccount("passKey").address, FALSE, TRUE),
       Key("passKey", FALSE, FALSE), Key("mint", FALSE, FALSE),
       Key(getAssociatedTokenAddressSync(cashAccount("passKey").address), FALSE, TRUE),
       Key(getAssociatedTokenAddressSync("owner"), FALSE, TRUE),
       Key("SysvarRent", FALSE, FALSE), Key("SystemProgram", FALSE, FALSE),
       Key("SysvarClock", FALSE, FALSE), Key("tokenProgramId", FALSE, FALSE),
       Key("AssociatedTokenProgram", FALSE, FALSE)>>,
     [amount |-> input.init.amount, feeBps |-> orZero(input.init.feeBps),
      networkFee |-> orZero(input.init.networkFee),
      baseFeeToRedeem |-> orZero(input.init.baseFeeToRedeem),
      rentFeeToRedeem |-> orZero(input.init.rentFeeToRedeem),
      cashLinkBump |-> cashLinkBump,
      distributionType |-> input.init.distributionType,
      maxNumRedemptions |-> input.init.maxNumRedemptions,
      minAmount |-> input.init.minAmount,
      fingerprintEnabled |->
        IF input.init.fingerprintEnabled = None THEN None
        ELSE Some(u8(input.init.fingerprintEnabled[1])),
      numDaysToExpire |->
        IF input.init.numDaysToExpire = None THEN 1
        ELSE input.init.numDaysToExpire[1]])

CashLinkClient_initialize(l, a, input) ==
  Assemble(input,
    Built(<<CashLinkClient_initInstruction(input, cashAccount("passKey").bump)>>,
          <<>>, <<>>, {}))

CashLinkClient_redeemInstruction(input, p) ==
  Ix("Cash", "Redeem",
     <<Key("authority", TRUE, FALSE), Key("wallet", FALSE, TRUE),
       Key(p.platformFeeToken, FALSE, TRUE), Key(cashAccount("passKey").address, FALSE, TRUE),
       Key("passKey", TRUE, FALSE), Key(p.ownerToken, FALSE, TRUE),
       Key("feePayer", TRUE, TRUE), Key(p.feePayerToken, FALSE, TRUE),
       Key(getAssociatedTokenAddressSync(cashAccount("passKey").address), FALSE, TRUE),
       Key(getAssociatedTokenAddressSync("wallet"), FALSE, TRUE),
       Key("mint", FALSE, FALSE), Key("SysvarClock", FALSE, FALSE),
       Key("SysvarRent", FALSE, FALSE), Key("SysvarSlotHashes", FALSE, FALSE),
       Key("SystemProgram", FALSE, FALSE), Key("tokenProgramId", FALSE, FALSE)>>
     \o (IF input.referrerFeeBps # 0
           THEN <<Key("referrer", FALSE, TRUE),
                  Key(getAssociatedTokenAddressSync("referrer"), FALSE, TRUE)>>
           ELSE <<>>)
     \o (IF input.fingerprint
           THEN <<Key("fingerprintPda", FALSE, TRUE), Key("fingerprint", FALSE, FALSE)>>
           ELSE <<>>)
     \o <<Key("tokenProgramId", FALSE, FALSE),
          Key("AssociatedTokenProgram", FALSE, FALSE)>>,
     [cashLinkBump |-> p.cashLinkBump,
      fingerprintBump |-> IF input.fingerprint THEN Some(253) ELSE None,
      referrerFeeBps |-> IF input.referrerFeeBps # 0
                         THEN Some(input.referrerFeeBps) ELSE None,
      refereeFeeBps |-> None])

\* The checks redeemTransaction applies once the account is loaded, in the
\* order of the code: the message it throws, or the empty string.
CashLinkClient_redeemPreconditions(cashLink, input) ==
  IF cashLink.fingerprintEnabled /\ ~input.fingerprint THEN FINGERPRINT_NOT_FOUND
  ELSE IF input.referrerFeeBps # 0 /\ ~input.referrer THEN REFERRER_WALLET
  ELSE ""

CashLinkClient_redeemTransaction(l, a, input) ==
  LET cashLink == _getCashAccount(l, cashAccount("passKey").address, input)
      t0 == <<"getAccountInfo">>
  IN IF ~cashLink.exists THEN Throw(FAILED_TO_FIND_ACCOUNT, t0, {})
     ELSE IF CashLinkClient_redeemPreconditions(cashLink, input) # ""
     THEN Throw(CashLinkClient_redeemPreconditions(cashLink, input), t0, {})
     ELSE
       LET ownerTokenAccount == getOrCreateAssociatedAccount(a, "owner")
           a1 == a \cup ownerTokenAccount.created
           feeTokenAccount == getOrCreateAssociatedAccount(a1, "feeWallet")
           a2 == a1 \cup feeTokenAccount.created
           feePayerTokenAccount == getOrCreateAssociatedAccount(a2, "feePayer")
       IN Built(<<CashLinkClient_redeemInstruction(input,
                    [cashLinkBump |-> cashAccount("passKey").bump,
                     platformFeeToken |-> feeTokenAccount.address,
                     ownerToken |-> ownerTokenAccount.address,
                     feePayerToken |-> feePayerTokenAccount.address])>>,
                <<>>,
                t0 \o ownerTokenAccount.trace \o feeTokenAccount.trace
                   \o feePayerTokenAccount.trace,
                ownerTokenAccount.created \cup feeTokenAccount.created
                   \cup feePayerTokenAccount.created)

CashLinkClient_redeem(l, a, input) ==
  LET b == CashLinkClient_redeemTransaction(l, a, input)
  IN IF b.error # "" THEN Failed(b.error, b.trace, b.created)
     ELSE Assemble(input, b)

-----------------------------------------------------------------------------
(* Legacy-only revisions: token accounts through the token library, and    *)
(* Transaction.sign followed by a serialize that requires every signature  *)

\* spl.getOrCreateAssociatedTokenAccount: reads the account; when it is
\* absent, sends and confirms a create transaction and reads it again.
splGetOrCreateAssociatedTokenAccount(a, holder) ==
  IF holder \in a
  THEN [address |-> getAssociatedTokenAddressSync(holder),
        trace |-> <<"getAccount">>, created |-> {}]
  ELSE [address |-> getAssociatedTokenAddressSync(holder),
        trace |-> <<"getAccount", "sendAndConfirmTransaction", "getAccount">>,
        created |-> {holder}]

\* transaction.sign(feePayer, authority); transaction.serialize().
signAndSerialize(built, instructions, trace, created) ==
  LET signers == <<"feePayer", "authority">>
  IN IF ~(RequiredSigners(instructions) \subseteq SeqToSet(signers))
     THEN Outcome("Signature verification failed", built, instructions, signers,
                  NoPayload, trace, created, FALSE)
     ELSE Outcome("", built, instructions, signers,
                  [version |-> "legacy", feePayer |-> "feePayer",
                   instructions |-> instructions,
                   signatures |-> SeqToSet(signers), lookupTables |-> <<>>],
                  trace, created, FALSE)

-----------------------------------------------------------------------------
(* CashLinkClient, redemption-account revision: cash_link/index.ts 1100-1798 *)

CashLinkRedemption_cancelTransaction(cashLink, a, cashLinkBump) ==
  IF cashLink.state = CashLinkState.Expired
  THEN Throw(ACCOUNT_ALREADY_CANCELED, <<>>, {})
  ELSE IF cashLink.state = CashLinkState.Redeemed
  THEN Throw(ACCOUNT_ALREADY_SETTLED, <<>>, {})
  ELSE LET ownerToken == splGetOrCreateAssociatedTokenAccount(a, "owner")
       IN Built(<<Ix("Cash", "Cancel",
                     <<Key("authority", TRUE, FALSE), Key(cashAccount("passKey").address, FALSE, TRUE),
                       Key("passKey", FALSE, FALSE),
                       Key(ownerToken.address, FALSE, TRUE),
                       Key("feePayer", FALSE, TRUE),
                       Key(getAssociatedTokenAddressSync(cashAccount("passKey").address), FALSE, TRUE),
                       Key("SysvarClock", FALSE, FALSE),
                       Key("tokenProgramId", FALSE, FALSE),
                       Key("SystemProgram", FALSE, FALSE)>>,
                     [cashLinkBump |-> cashLinkBump])>>,
                <<>>, ownerToken.trace, ownerToken.created)

CashLinkRedemption_cancel(l, a, input) ==
  LET cashLink == _getCashAccount(l, cashAccount("passKey").address, input)
      t0 == <<"getAccountInfo">>
  IN IF ~cashLink.exists THEN Failed(FAILED_TO_FIND_ACCOUNT, t0, {})
     ELSE LET b == CashLinkRedemption_cancelTransaction(cashLink, a, cashAccount("passKey").bump)
          IN IF b.error # "" THEN Failed(b.error, t0 \o b.trace, b.created)
             ELSE signAndSerialize(b.instructions,
                    b.instructions \o ComputeBudgetInstructions(input),
                    t0 \o b.trace \o <<"getLatestBlockhashAndContext">>, b.created)

CashLinkRedemption_cancelAndClose(l, a, input) ==
  LET cashLink == _getCashAccount(l, cashAccount("passKey").address, input)
      t0 == <<"getAccountInfo">>
  IN IF ~cashLink.exists THEN Failed(FAILED_TO_FIND_ACCOUNT, t0, {})
     ELSE LET b == CashLinkRedemption_cancelTransaction(cashLink, a, cashAccount("passKey").bump)
              instructions ==
                IF cashLink.totalRedemptions = 0
                THEN b.instructions \o <<CashLinkClient_closeInstruction>>
                ELSE b.instructions
          IN IF b.error # "" THEN Failed(b.error, t0 \o b.trace, b.created)
             ELSE signAndSerialize(instructions,
                    instructions \o ComputeBudgetInstructions(input),
                    t0 \o b.trace \o <<"getLatestBlockhashAndContext">>, b.created)

CashLinkRedemption_close(l, a, input) ==
  LET cashLink == _getCashAccount(l, cashAccount("passKey").address, input)
      t0 == <<"getAccountInfo">>
  IN IF ~cashLink.exists THEN Failed(FAILED_TO_FIND_ACCOUNT, t0, {})
     ELSE IF cashLink.state # CashLinkState.Expired THEN Failed(ACCOUNT_NOT_CANCELED, t0, {})
     ELSE IF cashLink.totalRedemptions # 0 THEN Failed(ACCOUNT_HAS_REDEMPTIONS, t0, {})
     ELSE signAndSerialize(<<CashLinkClient_closeInstruction>>,
            <<CashLinkClient_closeInstruction>> \o ComputeBudgetInstructions(input),
            t0 \o <<"getLatestBlockhashAndContext">>, {})

\* The schema of RedeemCashLinkArgs names the bump 'fingerprint_bump' while
\* the object handed to serialize holds it as fingerprintBump: the encoder
\* reads a property the object lacks and writes the option as None.
CashLinkRedemption_redeemInstruction(input, cashLink, p) ==
  Ix("Cash", "Redeem",
     <<Key("authority", TRUE, FALSE), Key("wallet", FALSE, TRUE),
       Key(p.platformFeeToken, FALSE, TRUE), Key(cashAccount("passKey").address, FALSE, TRUE),
       Key("passKey", TRUE, FALSE), Key("redemption", FALSE, TRUE),
       Key(p.ownerToken, FALSE, TRUE), Key("feePayer", TRUE, TRUE),
       Key(p.feePayerToken, FALSE, TRUE),
       Key(getAssociatedTokenAddressSync(cashAccount("passKey").address), FALSE, TRUE),
       Key(getAssociatedTokenAddressSync("wallet"), FALSE, TRUE),
       Key("mint", FALSE, FALSE), Key("SysvarClock", FALSE, FALSE),
       Key("SysvarRent", FALSE, FALSE), Key("SysvarSlotHashes", FALSE, FALSE),
       Key("SystemProgram", FALSE, FALSE)>>
     \o (IF cashLink.fingerprintEnabled
           THEN <<Key("fingerprintPda", FALSE, TRUE)>> ELSE <<>>)
     \o <<Key("tokenProgramId", FALSE, FALSE),
          Key("AssociatedTokenProgram", FALSE, FALSE)>>,
     [cashLinkBump |-> p.cashLinkBump, redemptionBump |-> 252,
      fingerprintBump |-> None,
      fingerprint |-> IF input.fingerprint THEN Some("fingerprint") ELSE None])

CashLinkRedemption_redeemTransaction(l, a, input) ==
  LET cashLink == _getCashAccount(l, cashAccount("passKey").address, input)
      t0 == <<"getAccountInfo">>
  IN IF ~cashLink.exists THEN Throw(FAILED_TO_FIND_ACCOUNT, t0, {})
     ELSE IF cashLink.fingerprintEnabled /\ ~input.fingerprint
     THEN Throw(FINGERPRINT_NOT_FOUND, t0, {})
     ELSE
       LET feeToken == splGetOrCreateAssociatedTokenAccount(a, "feeWallet")
           ownerToken == splGetOrCreateAssociatedTokenAccount(a, "owner")
           feePayerToken == splGetOrCreateAssociatedTokenAccount(a, "feePayer")
       IN Built(<<CashLinkRedemption_redeemInstruction(input, cashLink,
                    [cashLinkBump |-> cashAccount("passKey").bump,
                     platformFeeToken |-> feeToken.address,
                     ownerToken |-> ownerToken.address,
                     feePayerToken |-> feePayerToken.address])>>,
                <<>>,
                t0 \o feeToken.trace \o ownerToken.trace \o feePayerToken.trace,
                feeToken.created \cup ownerToken.created \cup feePayerToken.created)

CashLinkRedemption_redeem(l, a, input) ==
  LET b == CashLinkRedemption_redeemTransaction(l, a, input)
  IN IF b.error # "" THEN Failed(b.error, b.trace, b.created)
     ELSE legacyTransaction(b.instructions,
            b.instructions \o ComputeBudgetInstructions(input),
            <<"feePayer", "authority">>,
            b.trace \o <<"getLatestBlockhashAndContext">>, b.created)

-----------------------------------------------------------------------------
(* CashLinkClient, reference revision: cash_link/index.ts 1853-2495 *)

\* CashLinkData of this revision declares totalRedemptions as a BN while its
\* schema decodes the field as 'u16', which yields a plain number: the value
\* has no eq method and the comparison raises a TypeError.
CashLinkReference_totalRedemptionsEq(cashLink) ==
  [error |-> TYPE_ERROR, value |-> cashLink.totalRedemptions = 0]

CashLinkReference_cancelTransaction(cashLink, a, bump, reference) ==
  IF cashLink.state = CashLinkStateReference.Canceled
  THEN Throw(ACCOUNT_ALREADY_CANCELED, <<>>, {})
  ELSE IF cashLink.state = CashLinkStateReference.Redeemed
  THEN Throw(ACCOUNT_ALREADY_SETTLED, <<>>, {})
  ELSE LET senderToken ==
             IF cashLink.native
             THEN [address |-> "owner", trace |-> <<>>, created |-> {}]
             ELSE splGetOrCreateAssociatedTokenAccount(a, "owner")
       IN Built(<<Ix("Cash", "Cancel",
                     <<Key("authority", TRUE, FALSE), Key(cashLink.address, FALSE, TRUE),
                       Key(senderToken.address, FALSE, TRUE),
                       Key("feePayer", FALSE, TRUE),
                       Key("SysvarClock", FALSE, FALSE),
                       Key("SysvarRent", FALSE, FALSE)>>
                     \o (IF cashLink.native THEN <<>>
                         ELSE <<Key(getAssociatedTokenAddressSync(cashLink.address), FALSE, TRUE)>>)
                     \o <<Key("tokenProgramId", FALSE, FALSE),
                          Key("SystemProgram", FALSE, FALSE)>>,
                     [bump |-> bump, reference |-> reference])>>,
                <<>>, senderToken.trace, senderToken.created)

CashLinkReference_closeInstruction(cashLink) ==
  Ix("Cash", "Close",
     <<Key("authority", TRUE, FALSE), Key(cashLink, FALSE, TRUE),
       Key("feePayer", FALSE, TRUE), Key("SystemProgram", FALSE, FALSE)>>,
     NoArgs)

CashLinkReference_cancel(l, a, input) ==
  LET cashLink == _getCashAccount(l, cashAccount(input.cashReference).address, input)
      t0 == <<"getAccountInfo">>
  IN IF ~cashLink.exists THEN Failed(FAILED_TO_FIND_ACCOUNT, t0, {})
     ELSE LET b == CashLinkReference_cancelTransaction(cashLink, a,
                     cashAccount(input.cashReference).bump, input.cashReference)
          IN IF b.error # "" THEN Failed(b.error, t0 \o b.trace, b.created)
             ELSE signAndSerialize(b.instructions, b.instructions,
                    t0 \o b.trace \o <<"getLatestBlockhashAndContext">>, b.created)

CashLinkReference_cancelAndClose(l, a, input) ==
  LET cashLink == _getCashAccount(l, cashAccount(input.cashReference).address, input)
      t0 == <<"getAccountInfo">>
  IN IF ~cashLink.exists THEN Failed(FAILED_TO_FIND_ACCOUNT, t0, {})
     ELSE LET b == CashLinkReference_cancelTransaction(cashLink, a,
                     cashAccount(input.cashReference).bump, input.cashReference)
              eq == CashLinkReference_totalRedemptionsEq(cashLink)
              instructions ==
                IF eq.value THEN b.instructions \o <<CashLinkReference_closeInstruction(cashAccount(input.cashReference).address)>>
                ELSE b.instructions
          IN IF b.error # "" THEN Failed(b.error, t0 \o b.trace, b.created)
             ELSE IF eq.error # "" THEN Failed(eq.error, t0 \o b.trace, b.created)
             ELSE signAndSerialize(instructions, instructions,
                    t0 \o b.trace \o <<"getLatestBlockhashAndContext">>, b.created)

CashLinkReference_close(l, a, input) ==
  LET cashLink == _getCashAccount(l, cashAccount(input.cashReference).address, input)
      t0 == <<"getAccountInfo">>
      eq == CashLinkReference_totalRedemptionsEq(cashLink)
  IN IF ~cashLink.exists THEN Failed(FAILED_TO_FIND_ACCOUNT, t0, {})
     ELSE IF cashLink.state # CashLinkStateReference.Canceled
     THEN Failed(ACCOUNT_NOT_CANCELED, t0, {})
     ELSE IF eq.error # "" THEN Failed(eq.error, t0, {})
     ELSE IF ~eq.value THEN Failed(ACCOUNT_HAS_REDEMPTIONS, t0, {})
     ELSE signAndSerialize(<<CashLinkReference_closeInstruction(cashAccount(input.cashReference).address)>>,
            <<CashLinkReference_closeInstruction(cashAccount(input.cashReference).address)>>,
            t0 \o <<"getLatestBlockhashAndContext">>, {})

CashLinkReference_redeemTransaction(l, a, input) ==
  LET cashLink == _getCashAccount(l, cashAccount(input.cashReference).address, input)
      t0 == <<"getAccountInfo">>
  IN IF ~cashLink.exists THEN Throw(FAILED_TO_FIND_ACCOUNT, t0, {})
     ELSE
       LET none == [address |-> "", trace |-> <<>>, created |-> {}]
           recipientToken == IF cashLink.native THEN [none EXCEPT !.address = "wallet"]
                             ELSE splGetOrCreateAssociatedTokenAccount(a, "wallet")
           feeToken == IF cashLink.native THEN [none EXCEPT !.address = "feeWallet"]
                       ELSE splGetOrCreateAssociatedTokenAccount(a, "feeWallet")
           senderToken == IF cashLink.native THEN [none EXCEPT !.address = "owner"]
                          ELSE splGetOrCreateAssociatedTokenAccount(a, "owner")
       IN Built(<<Ix("Cash", "Redeem",
                     <<Key("authority", TRUE, FALSE), Key("wallet", TRUE, TRUE),
                       Key(feeToken.address, FALSE, TRUE), Key(cashLink.address, FALSE, TRUE),
                       Key("redemption", FALSE, TRUE),
                       Key(senderToken.address, FALSE, TRUE),
                       Key("feePayer", TRUE, FALSE), Key("SysvarClock", FALSE, FALSE),
                       Key("SysvarRent", FALSE, FALSE),
                       Key("SysvarSlotHashes", FALSE, FALSE)>>
                     \o (IF cashLink.native THEN <<>>
                         ELSE <<Key(recipientToken.address, FALSE, TRUE),
                                Key(getAssociatedTokenAddressSync(cashLink.address), FALSE, TRUE)>>)
                     \o <<Key("SystemProgram", FALSE, FALSE),
                          Key("tokenProgramId", FALSE, FALSE)>>,
                     [cashLinkBump |-> cashAccount(input.cashReference).bump,
                      cashLinkReference |-> input.cashReference, redemptionBump |-> 252,
                      redemptionReference |-> "redemptionRef"])>>,
                <<>>,
                t0 \o recipientToken.trace \o feeToken.trace \o senderToken.trace,
                recipientToken.created \cup feeToken.created \cup senderToken.created)

CashLinkReference_redeem(l, a, input) ==
  LET b == CashLinkReference_redeemTransaction(l, a, input)
  IN IF b.error # "" THEN Failed(b.error, b.trace, b.created)
     ELSE legacyTransaction(b.instructions, b.instructions,
            <<"feePayer", "authority">>,
            b.trace \o <<"getLatestBlockhashAndContext">>, b.created)

-----------------------------------------------------------------------------
(* EscrowClient: src/src/escrow/index.ts.  Its calls submit what they build. *)

EscrowClient_cancelInstruction(escrow, payerToken) ==
  Ix("Cash", "Cancel",
     <<Key("authority", TRUE, FALSE), Key(escrow, FALSE, TRUE),
       Key(payerToken, FALSE, TRUE), Key("vaultToken", FALSE, TRUE),
       Key("feePayer", TRUE, TRUE), Key("mint", FALSE, FALSE),
       Key("SysvarClock", FALSE, FALSE), Key("tokenProgramId", FALSE, FALSE),
       Key("SystemProgram", FALSE, FALSE)>>,
     NoArgs)

EscrowClient_closeInstruction(escrow) ==
  Ix("Cash", "Close",
     <<Key("authority", TRUE, FALSE), Key(escrow, FALSE, TRUE),
       Key("feePayer", FALSE, TRUE), Key("SystemProgram", FALSE, FALSE)>>,
     NoArgs)

\* sendRawTransaction of the signed transaction; wrapped is the message the
\* caller substitutes for a failure of the submission.
EscrowClient_sendRawTransaction(input, signed, wrapped) ==
  IF signed.error # "" THEN signed
  ELSE IF input.sendOk
  THEN [signed EXCEPT !.trace = @ \o <<"sendRawTransaction">>, !.sent = TRUE]
  ELSE [signed EXCEPT !.trace = @ \o <<"sendRawTransaction">>,
                      !.error = wrapped, !.payload = NoPayload]

\* The part cancel and cancelAndClose share; withClose adds the close
\* instruction, which cancelAndClose appends unconditionally.
EscrowClient_cancelWith(l, a, input, withClose) ==
  LET escrow == _getCashAccount(l, input.escrowAddress, input)
      t0 == <<"getAccountInfo">>
  IN IF ~escrow.exists THEN Failed(TYPE_ERROR, t0, {})
     ELSE IF escrow.state = EscrowState.Closed THEN Failed(ACCOUNT_ALREADY_CANCELED, t0, {})
     ELSE IF escrow.state = EscrowState.Settled THEN Failed(ACCOUNT_ALREADY_SETTLED, t0, {})
     ELSE
       LET payerToken ==
             IF escrow.native
             THEN [address |-> "payer", trace |-> <<>>, created |-> {}]
             ELSE splGetOrCreateAssociatedTokenAccount(a, "payer")
           built == <<EscrowClient_cancelInstruction(input.escrowAddress, payerToken.address)>>
                    \o (IF withClose THEN <<EscrowClient_closeInstruction(input.escrowAddress)>> ELSE <<>>)
           instructions ==
             built \o (IF input.memo THEN <<memoInstruction("authority")>> ELSE <<>>)
       IN EscrowClient_sendRawTransaction(input,
            signAndSerialize(built, instructions,
              t0 \o payerToken.trace \o <<"getLatestBlockhash">>, payerToken.created),
            TRANSACTION_SEND_ERROR)

EscrowClient_cancel(l, a, input) == EscrowClient_cancelWith(l, a, input, FALSE)

EscrowClient_cancelAndClose(l, a, input) == EscrowClient_cancelWith(l, a, input, TRUE)

EscrowClient_close(l, a, input) ==
  LET escrow == _getCashAccount(l, input.escrowAddress, input)
      t0 == <<"getAccountInfo">>
  IN IF ~escrow.exists THEN Failed(TYPE_ERROR, t0, {})
     ELSE IF ~(escrow.state = EscrowState.Initialized \/ escrow.state = EscrowState.Settled)
     THEN Failed(ACCOUNT_NOT_INITIALIZED_OR_SETTLED, t0, {})
     ELSE
       LET built == <<EscrowClient_closeInstruction(input.escrowAddress)>>
           instructions ==
             built \o (IF input.memo THEN <<memoInstruction("authority")>> ELSE <<>>)
       IN EscrowClient_sendRawTransaction(input,
            signAndSerialize(built, instructions,
              t0 \o <<"getLatestBlockhash">>, {}),
            "SendTransactionError")

-----------------------------------------------------------------------------
(* Requests *)

\* The values an initialize request carries; the optional ones may be absent.
\* native: the mint the request names is the native mint.
PlainInit ==
  [amount |-> 10, feeBps |-> None, networkFee |-> None,
   baseFeeToRedeem |-> None, rentFeeToRedeem |-> None,
   distributionType |-> "Fixed", maxNumRedemptions |-> 1, minAmount |-> None,
   fingerprintEnabled |-> None, numDaysToExpire |-> None, native |-> FALSE]

FullInit ==
  [amount |-> 20, feeBps |-> Some(25), networkFee |-> Some(3),
   baseFeeToRedeem |-> Some(4), rentFeeToRedeem |-> Some(5),
   distributionType |-> "Random", maxNumRedemptions |-> 2, minAmount |-> Some(6),
   fingerprintEnabled |-> Some(TRUE), numDaysToExpire |-> Some(7),
   native |-> FALSE]

BaseInput ==
  [asLegacyTransaction |-> TRUE, addressLookupTable |-> FALSE,
   computeBudget |-> 0, computeUnitPrice |-> 0, fingerprint |-> FALSE,
   referrerFeeBps |-> 0, referrer |-> FALSE, passKey |-> FALSE,
   memo |-> FALSE, sendOk |-> TRUE, fetch |-> "ok",
   cashReference |-> Reference, escrowAddress |-> "escrow",
   refereeFeeBps |-> None, weightPpm |-> None, init |-> PlainInit]

\* Revisions that assemble in either mode, and those that take compute settings.
HasVersionedMode(c) == c \in {"CashClient", "CashLinkClient"}
HasComputeBudget(c) == c \in {"CashClient", "CashLinkClient", "CashLinkClientRedemption"}
HasReferrer(c) == c \in {"CashClient", "CashLinkClient"}

\* The fields every call reads.  The lookup table is read in versioned mode only.
Requests(c) ==
  {[BaseInput EXCEPT !.asLegacyTransaction = m[1], !.addressLookupTable = m[2],
                     !.computeBudget = cb, !.computeUnitPrice = cup,
                     !.passKey = (c \in {"CashLinkClient", "CashLinkClientRedemption"}),
                     !.memo = mm, !.sendOk = ok] :
     m \in (IF HasVersionedMode(c)
            THEN {<<TRUE, FALSE>>, <<FALSE, FALSE>>, <<FALSE, TRUE>>}
            ELSE {<<TRUE, FALSE>>}),
     cb \in (IF HasComputeBudget(c) THEN ComputeBudgets ELSE {0}),
     cup \in (IF HasComputeBudget(c) THEN ComputeUnitPrices ELSE {0}),
     mm \in (IF c = "EscrowClient" THEN BOOLEAN ELSE {FALSE}),
     ok \in (IF c = "EscrowClient" THEN BOOLEAN ELSE {TRUE})}

\* The requests, and the plain request under each failure of the link read.
CommonInputs(c) ==
  Requests(c) \cup
  {[BaseInput EXCEPT
      !.passKey = (c \in {"CashLinkClient", "CashLinkClientRedemption"}),
      !.fetch = f] : f \in Fetches \ {"ok"}}

InitializeInputs(c) ==
  {[i EXCEPT !.passKey = pk] :
     i \in Requests(c),
     pk \in (IF c = "CashClient" THEN BOOLEAN ELSE {TRUE})}

RedeemInputs(c) ==
  {[i EXCEPT !.fingerprint = fp, !.referrerFeeBps = bps, !.referrer = r, !.passKey = pk] :
     i \in CommonInputs(c),
     fp \in (IF HasFingerprintFlag(c) THEN BOOLEAN ELSE {FALSE}),
     bps \in (IF HasReferrer(c) THEN ReferrerFees ELSE {0}),
     r \in (IF HasReferrer(c) THEN BOOLEAN ELSE {FALSE}),
     pk \in (IF c = "CashClient" THEN BOOLEAN
             ELSE {c \in {"CashLinkClient", "CashLinkClientRedemption"}})}

-----------------------------------------------------------------------------
(* State machine *)

NoCall == [op |-> "none"]

NoSend == [called |-> FALSE]

Procs == 1..MaxCalls

\* A caller with no call in progress.
Idle ==
  [pc |-> "idle", input |-> BaseInput, holders |-> <<>>, created |-> {},
   error |-> "", payload |-> NoPayload, alone |-> NoCall]

Init ==
  /\ client \in Clients
  /\ link = NoLink
  /\ atas \in SUBSET HoldersOf(client)
  /\ last = NoCall
  /\ wire = NoSend
  /\ running = [p \in Procs |-> Idle]

\* A call runs to completion against the chain as it stands: its outcome is
\* recorded and the token accounts it created exist afterwards.
Call(op, input, result) ==
  /\ last = NoCall
  /\ last' = [op |-> op, input |-> input, atas |-> atas, result |-> result]
  /\ atas' = atas \cup result.created
  /\ UNCHANGED <<client, link, wire, running>>

\* The handler a revision runs for an operation.
Handle(c, op, l, a, input) ==
  CASE op = "initialize" ->
         (IF c = "CashClient" THEN CashClient_initialize(l, a, input)
          ELSE CashLinkClient_initialize(l, a, input))
    [] op = "redeem" ->
         (CASE c = "CashClient" -> CashClient_redeem(l, a, input)
            [] c = "CashLinkClient" -> CashLinkClient_redeem(l, a, input)
            [] c = "CashLinkClientRedemption" -> CashLinkRedemption_redeem(l, a, input)
            [] OTHER -> CashLinkReference_redeem(l, a, input))
    [] op = "cancel" ->
         (CASE c = "CashClient" -> CashClient_cancel(l, a, input)
            [] c = "CashLinkClient" -> CashLinkClient_cancel(l, a, input)
            [] c = "CashLinkClientRedemption" -> CashLinkRedemption_cancel(l, a, input)
            [] c = "CashLinkClientReference" -> CashLinkReference_cancel(l, a, input)
            [] OTHER -> EscrowClient_cancel(l, a, input))
    [] op = "cancelAndClose" ->
         (CASE c = "CashClient" -> CashClient_cancelAndClose(l, a, input)
            [] c = "CashLinkClient" -> CashLinkClient_cancelAndClose(l, a, input)
            [] c = "CashLinkClientRedemption" ->
                 CashLinkRedemption_cancelAndClose(l, a, input)
            [] c = "CashLinkClientReference" ->
                 CashLinkReference_cancelAndClose(l, a, input)
            [] OTHER -> EscrowClient_cancelAndClose(l, a, input))
    [] OTHER ->
         (CASE c = "CashClient" -> CashClient_close(l, a, input)
            [] c = "CashLinkClient" -> CashLinkClient_close(l, a, input)
            [] c = "CashLinkClientRedemption" -> CashLinkRedemption_close(l, a, input)
            [] c = "CashLinkClientReference" -> CashLinkReference_close(l, a, input)
            [] OTHER -> EscrowClient_close(l, a, input))

initialize ==
  /\ client \in {"CashClient", "CashLinkClient"}
  /\ \E input \in InitializeInputs(client) :
       Call("initialize", input, Handle(client, "initialize", link, atas, input))

redeem ==
  /\ client # "EscrowClient"
  /\ \E input \in RedeemInputs(client) :
       Call("redeem", input, Handle(client, "redeem", link, atas, input))

cancel ==
  \E input \in CommonInputs(client) :
    Call("cancel", input, Handle(client, "cancel", link, atas, input))

cancelAndClose ==
  \E input \in CommonInputs(client) :
    Call("cancelAndClose", input, Handle(client, "cancelAndClose", link, atas, input))

close ==
  \E input \in CommonInputs(client) :
    Call("close", input, Handle(client, "close", link, atas, input))

\* The caller takes the outcome; the next call starts afresh.
Return ==
  /\ last # NoCall
  /\ last' = NoCall
  /\ wire' = NoSend
  /\ UNCHANGED <<client, link, atas, running>>

\* The payload the caller hands to send: the one the call returned, signed in
\* addition by the given parties, one signature possibly damaged on the way.
Handed(payload, cosigners, damaged) ==
  [version |-> payload.version, feePayer |-> payload.feePayer,
   instructions |-> payload.instructions,
   signatures |-> payload.signatures \cup cosigners,
   lookupTables |-> payload.lookupTables, damaged |-> damaged]

\* Every required signature is present and none is damaged.
\* Transaction.verifySignatures() with requireAllSignatures left at true.
verifySignatures(payload) ==
  /\ ~payload.damaged
  /\ RequiredSigners(payload.instructions) \subseteq payload.signatures

\* send: Transaction.from(buffer) parses the bytes as a legacy transaction
\* and refuses a versioned message; verifySignatures; sendRawTransaction.
CashClient_send(payload) ==
  IF payload.version # "legacy"
  THEN [called |-> TRUE, payload |-> payload, error |-> VERSIONED_MESSAGE,
        trace |-> <<>>, submitted |-> <<>>]
  ELSE IF ~verifySignatures(payload)
  THEN [called |-> TRUE, payload |-> payload, error |-> INVALID_SIGNATURE,
        trace |-> <<>>, submitted |-> <<>>]
  ELSE [called |-> TRUE, payload |-> payload, error |-> "",
        trace |-> <<"sendRawTransaction">>, submitted |-> <<payload>>]

\* The caller hands the payload it received to send, as it is or completed by
\* the parties whose signatures it still lacks.
send ==
  /\ last # NoCall
  /\ wire = NoSend
  /\ last.result.payload.version # "none"
  /\ \E damaged \in BOOLEAN,
        cosigners \in {{}, RequiredSigners(last.result.payload.instructions)} :
       wire' = CashClient_send(Handed(last.result.payload, cosigners, damaged))
  /\ UNCHANGED <<client, link, atas, last, running>>

(* The on-chain program, between calls *)

\* The address a revision reads for a request: the one derived from the
\* request's reference or pass key, or the escrow address the request names.
RequestedAddress(c, input) ==
  CASE c \in {"CashLinkClient", "CashLinkClientRedemption"} ->
         cashAccount("passKey").address
    [] c = "EscrowClient" -> input.escrowAddress
    [] OTHER -> cashAccount(input.cashReference).address

\* The program creates the record at one of the given addresses; passKeys
\* says whether the record it writes may hold a pass key.
ProgramInitializeWith(addresses, passKeys) ==
  /\ last = NoCall
  /\ ~link.exists
  /\ \E max \in (IF client = "EscrowClient" THEN {0} ELSE 1..MaxRedemptions),
        fp \in (IF HasFingerprintFlag(client) THEN BOOLEAN ELSE {FALSE}),
        nat \in (IF HandlesNative(client) THEN BOOLEAN ELSE {FALSE}),
        pk \in passKeys,
        address \in addresses :
       link' = [exists |-> TRUE, state |-> "Initialized", totalRedemptions |-> 0,
                maxNumRedemptions |-> max, fingerprintEnabled |-> fp, native |-> nat,
                passKey |-> pk, address |-> address]
  /\ UNCHANGED <<client, atas, last, wire, running>>

\* The pass keys a record of the revision may hold: a CashClient record may
\* or may not hold one, the records of the first two link revisions always do.
RecordedPassKeys(c) ==
  IF c = "CashClient" THEN BOOLEAN
  ELSE {c \in {"CashLinkClient", "CashLinkClientRedemption"}}

\* Whether the record holds a pass key is not read by any handler of the
\* main state machine: it creates records without one.
ProgramInitializeAt(addresses) == ProgramInitializeWith(addresses, {FALSE})

ProgramInitialize == ProgramInitializeAt({RequestedAddress(client, BaseInput)})

ProgramRedeem ==
  /\ last = NoCall
  /\ link.exists
  /\ link.state \in {"Initialized", "Redeeming"}
  /\ IF client = "EscrowClient"
     THEN link' = [link EXCEPT !.state = EscrowState.Settled]
     ELSE /\ link.totalRedemptions < link.maxNumRedemptions
          /\ link' = [link EXCEPT
                        !.totalRedemptions = @ + 1,
                        !.state = IF link.totalRedemptions + 1 = link.maxNumRedemptions
                                  THEN "Redeemed" ELSE "Redeeming"]
  /\ UNCHANGED <<client, atas, last, wire, running>>

ProgramCancel ==
  /\ last = NoCall
  /\ link.exists
  /\ link.state \in {"Initialized", "Redeeming"}
  /\ link' = [link EXCEPT !.state = CanceledStateOf(client)]
  /\ UNCHANGED <<client, atas, last, wire, running>>

ProgramClose ==
  /\ last = NoCall
  /\ link.exists
  /\ IF client = "EscrowClient"
     THEN /\ link.state \in {EscrowState.Initialized, EscrowState.Settled,
                             EscrowState.Canceled}
          /\ link' = [link EXCEPT !.state = EscrowState.Closed]
     ELSE /\ link.state = CanceledStateOf(client)
          /\ link.totalRedemptions = 0
          /\ link' = NoLink
  /\ UNCHANGED <<client, atas, last, wire, running>>

Next ==
  \/ initialize
  \/ redeem
  \/ cancel
  \/ cancelAndClose
  \/ close
  \/ send
  \/ Return
  \/ ProgramInitialize
  \/ ProgramRedeem
  \/ ProgramCancel
  \/ ProgramClose

Spec == Init /\ [][Next]_vars

-----------------------------------------------------------------------------
(* CashClient.redeem, call by call at the grain of its awaits *)

\* What sendAndConfirmTransaction throws when the create instruction finds
\* the associated token account already there.
CREATE_ACCOUNT_FAILED == "SendTransactionError"

ConcurrentInputs ==
  {[BaseInput EXCEPT !.referrerFeeBps = bps, !.referrer = r] :
     bps \in ReferrerFees, r \in BOOLEAN}

InitConcurrent ==
  /\ client = "CashClient"
  /\ \E nat \in BOOLEAN :
       link = [exists |-> TRUE, state |-> "Initialized", totalRedemptions |-> 0,
               maxNumRedemptions |-> MaxRedemptions, fingerprintEnabled |-> FALSE,
               native |-> nat, passKey |-> FALSE,
               address |-> cashAccount(Reference).address]
  /\ atas \in SUBSET HoldersOf("CashClient")
  /\ last = NoCall
  /\ wire = NoSend
  /\ running = [p \in Procs |-> Idle]

Finish(p, error, payload) ==
  running' = [running EXCEPT ![p].pc = "done", ![p].error = error,
                             ![p].payload = payload]

\* Where a call goes once the token account at the head of its list is known.
NextHolder(r) ==
  [r EXCEPT !.holders = Tail(@),
            !.pc = IF Len(r.holders) = 1 THEN "assemble" ELSE "getAccount"]

\* redeem is called; alone is what the call returns if nothing else runs.
redeemCall(p) ==
  /\ running[p].pc = "idle"
  /\ \E input \in ConcurrentInputs :
       LET o == CashClient_redeem(link, atas, input)
       IN running' = [running EXCEPT
            ![p].pc = "getAccountInfo", ![p].input = input,
            ![p].alone = [op |-> "redeem", error |-> o.error,
                          payload |-> o.payload]]
  /\ UNCHANGED <<client, link, atas, last, wire>>

\* redeemTransaction up to its first token-account lookup.
redeemReadLink(p) ==
  /\ running[p].pc = "getAccountInfo"
  /\ LET cash == _getCashAccount(link, cashAccount(running[p].input.cashReference).address,
                                 running[p].input)
     IN IF ~cash.exists THEN Finish(p, FAILED_TO_FIND_ACCOUNT, NoPayload)
        ELSE IF CashClient_redeemPreconditions(cash, running[p].input) # ""
        THEN Finish(p, CashClient_redeemPreconditions(cash, running[p].input),
                    NoPayload)
        ELSE running' = [running EXCEPT
               ![p].pc = "getAccount",
               ![p].holders = IF cash.native THEN <<"feeWallet", "feePayer">>
                              ELSE <<"owner", "feeWallet", "feePayer">>]
  /\ UNCHANGED <<client, link, atas, last, wire>>

\* getOrCreateAssociatedAccount: the lookup.
redeemGetAccount(p) ==
  /\ running[p].pc = "getAccount"
  /\ running' = [running EXCEPT ![p] =
       IF _getAccount(atas, Head(running[p].holders))
       THEN NextHolder(running[p])
       ELSE [running[p] EXCEPT !.pc = "sendAndConfirmTransaction"]]
  /\ UNCHANGED <<client, link, atas, last, wire>>

\* getOrCreateAssociatedAccount: the create transaction is sent and confirmed.
redeemCreateAccount(p) ==
  /\ running[p].pc = "sendAndConfirmTransaction"
  /\ LET holder == Head(running[p].holders)
     IN IF holder \in atas
        THEN /\ Finish(p, CREATE_ACCOUNT_FAILED, NoPayload)
             /\ atas' = atas
        ELSE /\ atas' = atas \cup {holder}
             /\ running' = [running EXCEPT ![p] =
                  [NextHolder(running[p]) EXCEPT !.created = @ \cup {holder}]]
  /\ UNCHANGED <<client, link, last, wire>>

\* The rest of the call: the instruction is built and the payload assembled.
redeemAssemble(p) ==
  /\ running[p].pc = "assemble"
  /\ LET o == CashClient_redeem(link, atas, running[p].input)
     IN Finish(p, o.error, o.payload)
  /\ UNCHANGED <<client, link, atas, last, wire>>

NextConcurrent ==
  \E p \in Procs :
    \/ redeemCall(p)
    \/ redeemReadLink(p)
    \/ redeemGetAccount(p)
    \/ redeemCreateAccount(p)
    \/ redeemAssemble(p)

SpecConcurrent == InitConcurrent /\ [][NextConcurrent]_vars

-----------------------------------------------------------------------------
(* The builders over the range of references and request values *)

\* The addresses at which the program may hold the record of a revision.
LinkAddresses(c) ==
  CASE c \in {"CashLinkClient", "CashLinkClientRedemption"} ->
         {cashAccount("passKey").address}
    [] c = "EscrowClient" -> EscrowAddresses
    [] OTHER -> {cashAccount(r).address : r \in References}

\* The values an initialize request may carry.
InitValues ==
  {PlainInit, FullInit, [FullInit EXCEPT !.fingerprintEnabled = Some(FALSE)],
   [PlainInit EXCEPT !.native = TRUE]}

\* The optional fee arguments of a redeem request.
RedeemFees ==
  {[refereeFeeBps |-> None, weightPpm |-> None],
   [refereeFeeBps |-> Some(30), weightPpm |-> Some(500)]}

\* Legacy-mode requests naming any reference or escrow address.
BuilderRequests(c) ==
  {[BaseInput EXCEPT !.passKey = pk, !.cashReference = r, !.escrowAddress = e] :
     pk \in (IF c = "CashClient" THEN BOOLEAN
             ELSE {c \in {"CashLinkClient", "CashLinkClientRedemption"}}),
     r \in (IF c \in {"CashClient", "CashLinkClientReference"}
            THEN References ELSE {Reference}),
     e \in (IF c = "EscrowClient" THEN EscrowAddresses ELSE {"escrow"})}

BuilderInitializeInputs(c) ==
  {[i EXCEPT !.init = v] : i \in BuilderRequests(c), v \in InitValues}

BuilderRedeemInputs(c) ==
  {[i EXCEPT !.fingerprint = fp, !.referrerFeeBps = bps, !.referrer = r,
             !.refereeFeeBps = f.refereeFeeBps, !.weightPpm = f.weightPpm] :
     i \in BuilderRequests(c),
     fp \in (IF HasFingerprintFlag(c) THEN BOOLEAN ELSE {FALSE}),
     bps \in (IF HasReferrer(c) THEN ReferrerFees ELSE {0}),
     r \in (IF HasReferrer(c) THEN BOOLEAN ELSE {FALSE}),
     f \in (IF c = "CashClient" THEN RedeemFees
            ELSE {[refereeFeeBps |-> None, weightPpm |-> None]})}

InitBuilders ==
  /\ client \in Clients
  /\ link = NoLink
  /\ atas \in {{}, HoldersOf(client)}
  /\ last = NoCall
  /\ wire = NoSend
  /\ running = [p \in Procs |-> Idle]

buildInitialize ==
  /\ client \in {"CashClient", "CashLinkClient"}
  /\ \E input \in BuilderInitializeInputs(client) :
       Call("initialize", input, Handle(client, "initialize", link, atas, input))

buildRedeem ==
  /\ client # "EscrowClient"
  /\ \E input \in BuilderRedeemInputs(client) :
       Call("redeem", input, Handle(client, "redeem", link, atas, input))

buildCancel ==
  \E input \in BuilderRequests(client), op \in {"cancel", "cancelAndClose"} :
    Call(op, input, Handle(client, op, link, atas, input))

buildClose ==
  \E input \in BuilderRequests(client) :
    Call("close", input, Handle(client, "close", link, atas, input))

ProgramInitializeAnywhere ==
  ProgramInitializeWith(LinkAddresses(client), RecordedPassKeys(client))

NextBuilders ==
  \/ buildInitialize
  \/ buildRedeem
  \/ buildCancel
  \/ buildClose
  \/ Return
  \/ ProgramInitializeAnywhere
  \/ ProgramRedeem
  \/ ProgramCancel

SpecBuilders == InitBuilders /\ [][NextBuilders]_vars

-----------------------------------------------------------------------------
(* Vocabulary of the properties *)

HasPayload == last.result.payload.version # "none"

\* The link as the completed call read it: the chain does not move while the
\* outcome is held.
Seen == _getCashAccount(link, RequestedAddress(client, last.input), last.input)

IsCanceledState(st) == st \in {"Canceled", "Expired"}
IsRedeemedState(st) == st \in {"Redeemed", "Settled"}

\* The call read the link account and made no other call to the network client.
OnlyLinkRead == last.result.trace = <<"getAccountInfo">>

\* The call returned nothing that could be submitted.
NothingBuilt ==
  /\ last.result.built = <<>>
  /\ last.result.instructions = <<>>
  /\ ~HasPayload
  /\ ~last.result.sent

IsComputeBudget(ix) == ix.programId = "ComputeBudget"
IsProgramInstruction(ix) == ix.programId = "Cash"
IsBuilderInstruction(ix) == ix.programId \notin {"ComputeBudget", "Memo"}

Names(ixs) == [i \in 1..Len(ixs) |-> ixs[i].name]

-----------------------------------------------------------------------------
(* Properties *)

\* C1: on a link whose record has fingerprintEnabled set, a redeem request
\* without a fingerprint fails with 'Fingerprint required' having read nothing
\* but the link account, and returns no instruction list.
C1_FingerprintRequired ==
  (last.op = "redeem" /\ Seen.exists /\ Seen.fingerprintEnabled
     /\ ~last.input.fingerprint)
    => /\ last.result.error = FINGERPRINT_NOT_FOUND
       /\ OnlyLinkRead
       /\ NothingBuilt

\* C2: a redeem request against a link observed in state Redeemed, Canceled
\* or Expired fails locally and returns no payload.
C2_RedeemOnlyWhenOpen ==
  (last.op = "redeem" /\ Seen.exists
     /\ (IsRedeemedState(Seen.state) \/ IsCanceledState(Seen.state)))
    => /\ last.result.error # ""
       /\ NothingBuilt

\* C3: a redeem request that reads totalRedemptions below maxNumRedemptions is
\* not turned away for the count, and one that reads totalRedemptions equal to
\* maxNumRedemptions is rejected locally, with no payload.
C3_RedeemRespectsMaximum ==
  (last.op = "redeem" /\ Seen.exists)
    => /\ (Seen.totalRedemptions < Seen.maxNumRedemptions
             /\ last.result.error \notin
                  {FINGERPRINT_NOT_FOUND, REFERRER_WALLET, TYPE_ERROR}
           => HasPayload)
       /\ (Seen.totalRedemptions = Seen.maxNumRedemptions
           => last.result.error # "" /\ NothingBuilt)

\* C4: cancel and cancelAndClose on a link observed in a terminal state fail,
\* with 'Account already canceled' for Canceled/Expired and 'Account already
\* settled' for Redeemed, after reading only the link account and without
\* building, fetching a blockhash or submitting anything.
C4_CancelOnTerminalFails ==
  (last.op \in {"cancel", "cancelAndClose"} /\ Seen.exists
     /\ (IsCanceledState(Seen.state) \/ IsRedeemedState(Seen.state)))
    => /\ last.result.error =
            (IF IsCanceledState(Seen.state) THEN ACCOUNT_ALREADY_CANCELED
             ELSE ACCOUNT_ALREADY_SETTLED)
       /\ OnlyLinkRead
       /\ NothingBuilt

\* C5: close returns a payload only for a link observed canceled or expired
\* with no redemptions; otherwise it fails with 'Account not canceled' when the
\* state is not cancel-terminal and with 'Account has redemptions' when the
\* count is not zero, and builds nothing.
C5_CloseOnlyWhenCanceledAndEmpty ==
  (last.op = "close" /\ Seen.exists)
    => IF IsCanceledState(Seen.state) /\ Seen.totalRedemptions = 0
       THEN TRUE
       ELSE /\ last.result.error =
                 (IF ~IsCanceledState(Seen.state) THEN ACCOUNT_NOT_CANCELED
                  ELSE ACCOUNT_HAS_REDEMPTIONS)
            /\ NothingBuilt

\* C6: a cancelAndClose that succeeds on a link with no redemptions carries
\* exactly the two program instructions cancel then close, in that order; on a
\* link with redemptions it carries the cancel instruction alone.
C6_CancelAndCloseShape ==
  (last.op = "cancelAndClose" /\ last.result.error = "")
    => LET names == Names(SelectSeq(last.result.payload.instructions,
                                    IsProgramInstruction))
       IN /\ HasPayload
          /\ Names(last.result.built) = names
          /\ names = (IF Seen.totalRedemptions = 0
                      THEN <<"Cancel", "Close">> ELSE <<"Cancel">>)

\* A cancelAndClose on a link with a redemption returned the cancel alone.
C6_Witness ==
  /\ last.op = "cancelAndClose"
  /\ last.result.error = ""
  /\ Seen.totalRedemptions > 0
  /\ Names(last.result.built) = <<"Cancel">>
  /\ HasPayload

\* C7 as stated: every redeem request with a referrer fee and no referrer
\* fails with 'Referrer required' having read nothing but the link account,
\* and returns no instruction list.
C7_ReferrerRequired_Original ==
  (last.op = "redeem" /\ last.input.referrerFeeBps > 0 /\ ~last.input.referrer)
    => /\ last.result.error = REFERRER_WALLET
       /\ OnlyLinkRead
       /\ NothingBuilt

\* C7: a redeem request with a referrer fee and no referrer always fails
\* having read nothing but the link account and returns no instruction list;
\* the message is 'Referrer required' unless an earlier check fails first:
\* 'Failed to find account' when the link is absent, and, in the pass-key
\* CashLinkClient, 'Fingerprint required' when the link requires a
\* fingerprint the request lacks.
C7_ReferrerRequired ==
  (last.op = "redeem" /\ last.input.referrerFeeBps > 0 /\ ~last.input.referrer)
    => /\ last.result.error =
            (IF ~Seen.exists THEN FAILED_TO_FIND_ACCOUNT
             ELSE IF client = "CashLinkClient" /\ Seen.fingerprintEnabled
                       /\ ~last.input.fingerprint
                  THEN FINGERPRINT_NOT_FOUND
             ELSE REFERRER_WALLET)
       /\ OnlyLinkRead
       /\ NothingBuilt

\* A redeem with a fee and no referrer was turned away with 'Referrer
\* required' although some token account was still missing.
C7_Witness ==
  /\ last.op = "redeem"
  /\ last.input.referrerFeeBps > 0
  /\ ~last.input.referrer
  /\ Seen.exists
  /\ last.result.error = REFERRER_WALLET
  /\ last.atas = {}
  /\ atas = {}

\* C8: in either mode the compute-budget instructions precede every other
\* instruction of the payload, and none is present when the request supplies
\* neither a compute budget nor a priority fee.
C8_ComputeBudgetFirst ==
  (last.op # "none" /\ HasPayload /\ HasComputeBudget(client))
    => LET ixs == last.result.payload.instructions
       IN /\ \A i, j \in 1..Len(ixs) :
               (IsComputeBudget(ixs[i]) /\ ~IsComputeBudget(ixs[j])) => i < j
          /\ (last.input.computeBudget = 0 /\ last.input.computeUnitPrice = 0)
               => \A i \in 1..Len(ixs) : ~IsComputeBudget(ixs[i])

\* C9: in either mode the payload carries the builder's instructions in the
\* order the builder produced them, none dropped, duplicated or reordered.
C9_BuilderOrderPreserved ==
  (last.op # "none" /\ HasPayload)
    => /\ last.result.built # <<>>
       /\ SelectSeq(last.result.payload.instructions, IsBuilderInstruction)
            = last.result.built
       /\ (client = "CashClient" /\ last.op = "redeem")
            => last.result.built =
                 CashClient_redeemTransaction(Seen, last.atas, last.input).instructions
       /\ (client = "CashClient" /\ last.op = "cancelAndClose")
            => last.result.built =
                 CashClient_appendClose(Seen,
                   CashClient_cancelTransaction(Seen, cashAccount(last.input.cashReference).bump,
                                                last.input).instructions)

\* A versioned redeem of a native link carried the builder's five
\* instructions followed by both compute-budget instructions.
C9_Witness ==
  /\ last.op = "redeem"
  /\ HasPayload
  /\ last.result.payload.version = "v0"
  /\ Len(last.result.built) = 5
  /\ Len(last.result.payload.instructions) = 7

FlipMode(input) == [input EXCEPT !.asLegacyTransaction = ~@]

\* The signers the builder of the operation returned.
BuilderSigners ==
  IF client = "CashClient" /\ last.op = "redeem"
  THEN CashClient_redeemTransaction(Seen, last.atas, last.input).signers
  ELSE <<>>

\* C10: for the same request the two modes hand the same instruction list and
\* the same signers, the builder's signers then the fee payer and the
\* authority, to the signing step, and a payload is signed by exactly those
\* and carries exactly that list; in legacy mode the payload is returned
\* whether or not every required signer of its instructions has signed.
C10_SameSignersBothModes ==
  (last.op # "none" /\ HasVersionedMode(client))
    => LET r == last.result
           o == Handle(client, last.op, Seen, last.atas, FlipMode(last.input))
       IN /\ o.signers = r.signers
          /\ o.instructions = r.instructions
          /\ r.instructions # <<>>
               => r.signers = BuilderSigners \o <<"feePayer", "authority">>
          /\ HasPayload
               => /\ r.payload.signatures = SeqToSet(r.signers)
                  /\ r.payload.instructions = r.instructions
          /\ (last.input.asLegacyTransaction /\ r.instructions # <<>>) => HasPayload

\* A legacy initialize returned a payload the owner has yet to sign.
C10_Witness ==
  /\ last.op = "initialize"
  /\ last.input.asLegacyTransaction
  /\ HasPayload
  /\ "owner" \in RequiredSigners(last.result.payload.instructions)
  /\ last.result.payload.signatures = {"feePayer", "authority"}

\* C11: send never submits a payload whose signatures do not verify: for such
\* a payload it fails with 'Invalid signature' and sendRawTransaction is not
\* called; for a payload whose signatures verify sendRawTransaction is called
\* exactly once, with the bytes it was handed.
C11_SendVerifiesFirst ==
  wire.called
    => IF verifySignatures(wire.payload)
       THEN /\ wire.error = ""
            /\ wire.trace = <<"sendRawTransaction">>
            /\ wire.submitted = <<wire.payload>>
       ELSE /\ wire.error = INVALID_SIGNATURE
            /\ wire.trace = <<>>
            /\ wire.submitted = <<>>

\* The link account is absent, or the bytes read for it do not decode.
LinkMissing ==
  \/ (last.input.fetch = "ok" /\ ~link.exists)
  \/ last.input.fetch = "garbled"

\* C12: cancel, cancelAndClose, close and redeem on a link account that does
\* not exist on chain, or whose bytes fail to decode, fail with 'Failed to
\* find account', not with a runtime exception, and build no instruction.
C12_MissingLinkIsNotFound ==
  (last.op \in {"cancel", "cancelAndClose", "close", "redeem"} /\ LinkMissing)
    => /\ last.result.error = FAILED_TO_FIND_ACCOUNT
       /\ NothingBuilt

\* Operations that load the link account.
LoadsLink == last.op \in {"cancel", "cancelAndClose", "close", "redeem"}

\* C13: an operation that reads a link account owned by a program other than
\* the expected one fails with the invalid-owner error, which is not the
\* not-found error, and builds nothing.
C13_ForeignOwnerFailsClosed ==
  (LoadsLink /\ last.input.fetch = "foreign")
    => /\ last.result.error = ERROR_INVALID_OWNER
       /\ NothingBuilt

\* C14: a transport error thrown by getAccountInfo while the link is read
\* reaches the caller unchanged, and the read is made once.
C14_TransportErrorSurfaced ==
  (LoadsLink /\ last.input.fetch = "throws")
    => /\ last.result.error = TRANSPORT_ERROR
       /\ last.result.trace = <<"getAccountInfo">>

\* C15: redeem calls running side by side do not interfere: each completes
\* with the outcome it would have had if run alone, and none changes the
\* chain (no token account is created by a call).
C15_ConcurrentCallsIndependent ==
  \A p \in Procs :
    running[p].pc = "done"
      => /\ running[p].error = running[p].alone.error
         /\ running[p].payload = running[p].alone.payload
         /\ running[p].created = {}

\* The program instructions a completed call built.
ProgramInstructionsBuilt ==
  IF last = NoCall THEN {}
  ELSE {ix \in SeqToSet(last.result.built) : IsProgramInstruction(ix)}

\* The link account key of a program instruction: the fourth entry of Init
\* and Redeem, the second of Cancel and Close.
LinkKeyOf(ix) ==
  ix.keys[IF ix.name \in {"Init", "Redeem"} THEN 4 ELSE 2].pubkey

\* The link bumps an instruction's data carries.
LinkBumpsOf(ix) ==
  (IF "cashBump" \in DOMAIN ix.data THEN {ix.data.cashBump} ELSE {})
  \cup (IF "cashLinkBump" \in DOMAIN ix.data THEN {ix.data.cashLinkBump} ELSE {})
  \cup (IF "bump" \in DOMAIN ix.data THEN {ix.data.bump} ELSE {})

\* The derivations a revision performs for a request: one from the pass key
\* or the reference, none where the request carries no seed.
DerivationsOf(c, input) ==
  CASE c \in {"CashLinkClient", "CashLinkClientRedemption"} -> {cashAccount("passKey")}
    [] c = "EscrowClient" -> {}
    [] OTHER -> {cashAccount(input.cashReference)}

\* C16: in every instruction emitted by initialize, cancel, cancelAndClose,
\* close and redeem the link account key is the address derived from the
\* request's reference or pass key, never an address taken directly from
\* the caller, and every link bump in the data is the bump of that derivation.
C16_LinkKeyIsDerived ==
  \A ix \in ProgramInstructionsBuilt :
    \E d \in DerivationsOf(client, last.input) :
      /\ LinkKeyOf(ix) = d.address
      /\ LinkBumpsOf(ix) \subseteq {d.bump}

\* The redeem instructions a completed redeem call built.
RedeemInstructionsBuilt ==
  {ix \in ProgramInstructionsBuilt : last.op = "redeem" /\ ix.name = "Redeem"}

\* The positions at which an instruction's account list holds one of the keys.
PositionsOf(ix, pubkeys) ==
  {i \in 1..Len(ix.keys) : ix.keys[i].pubkey \in pubkeys}

ReferrerEntries == {"referrer", getAssociatedTokenAddressSync("referrer")}
FingerprintEntries == {"fingerprintPda", "fingerprint"}

\* Referrer entries are in the list iff the request carries a referrer fee.
C17_ReferrerEntries(ix) ==
  IF last.input.referrerFeeBps > 0
  THEN Cardinality(PositionsOf(ix, ReferrerEntries)) = 2
  ELSE PositionsOf(ix, ReferrerEntries) = {}

\* Fingerprint entries are in the list iff the link has the feature enabled.
C17_FingerprintEntries(ix) ==
  (PositionsOf(ix, FingerprintEntries) # {}) <=> Seen.fingerprintEnabled

ProgramIds == {"SystemProgram", "tokenProgramId", "AssociatedTokenProgram"}

\* Referrer entries precede fingerprint entries, and both precede the
\* program ids that end the list: nothing but program ids follows them.
C17_Order(ix) ==
  /\ ix.keys[Len(ix.keys)].pubkey \in ProgramIds
  /\ \A i \in PositionsOf(ix, ReferrerEntries \cup FingerprintEntries) :
       \A j \in (i + 1)..Len(ix.keys) :
         ix.keys[j].pubkey \in ReferrerEntries \cup FingerprintEntries \cup ProgramIds
  /\ \A i \in PositionsOf(ix, ReferrerEntries),
        j \in PositionsOf(ix, FingerprintEntries) : i < j

\* C17: in the redeem instruction's account list the referrer and
\* referrer-token entries are present iff referrerFeeBps > 0 and the
\* fingerprint entries iff the fingerprint feature is active for the link,
\* referrer entries before fingerprint entries and both before the trailing
\* program ids.
C17_ConditionalEntries ==
  \A ix \in RedeemInstructionsBuilt :
    /\ C17_ReferrerEntries(ix)
    /\ C17_FingerprintEntries(ix)
    /\ C17_Order(ix)

\* An argument of an instruction's data: None when the data has no such field.
ArgumentOf(ix, field) ==
  IF field \in DOMAIN ix.data THEN ix.data[field] ELSE None

\* C18: for every redeem request the encoded arguments agree with the
\* conditional account list: referrerFeeBps is present in the data iff the
\* referrer accounts are in the key list, fingerprintBump is present iff the
\* fingerprint account is in the key list, and a present field carries the
\* caller-supplied fee or the derived bump.
C18_DataAgreesWithKeys ==
  \A ix \in RedeemInstructionsBuilt :
    /\ ArgumentOf(ix, "referrerFeeBps") =
         (IF PositionsOf(ix, ReferrerEntries) # {}
          THEN Some(last.input.referrerFeeBps) ELSE None)
    /\ ArgumentOf(ix, "fingerprintBump") =
         (IF PositionsOf(ix, {"fingerprintPda"}) # {} THEN Some(253) ELSE None)

\* The Init instructions a completed initialize call built.
InitInstructionsBuilt ==
  {ix \in ProgramInstructionsBuilt : last.op = "initialize" /\ ix.name = "Init"}

\* C19: the Initialize instruction's encoded arguments carry every value of
\* the request: amount, feeBps, the fee fields, distributionType,
\* maxNumRedemptions, minAmount, fingerprintEnabled and the derived bump; a
\* request with fingerprintEnabled = true encodes it as present and true.
C19_InitCarriesRequest ==
  \A ix \in InitInstructionsBuilt :
    LET v == last.input.init
    IN /\ ix.data.amount = v.amount
       /\ ix.data.feeBps = orZero(v.feeBps)
       /\ ix.data.networkFee = orZero(v.networkFee)
       /\ ix.data.baseFeeToRedeem = orZero(v.baseFeeToRedeem)
       /\ ix.data.rentFeeToRedeem = orZero(v.rentFeeToRedeem)
       /\ ix.data.distributionType = v.distributionType
       /\ ix.data.maxNumRedemptions = v.maxNumRedemptions
       /\ ix.data.minAmount = v.minAmount
       /\ ix.data.fingerprintEnabled =
            (IF v.fingerprintEnabled = None THEN None
             ELSE IF v.fingerprintEnabled[1] THEN Some(1) ELSE Some(0))
       /\ LinkBumpsOf(ix) = {d.bump : d \in DerivationsOf(client, last.input)}

\* The public keys of an instruction's account list, in order.
PubkeysOf(ix) == [i \in 1..Len(ix.keys) |-> ix.keys[i].pubkey]

Sysvars == {"SysvarRent", "SysvarClock", "SystemProgram"}

\* The account list from the mint on: mint, vault, owner token account, then
\* sysvars only, then the token program and the associated-token program.
C20_Tail(keys, linkAddress) ==
  /\ Len(keys) >= 6
  /\ SubSeq(keys, 1, 3) =
       <<"mint", getAssociatedTokenAddressSync(linkAddress),
         getAssociatedTokenAddressSync("owner")>>
  /\ \A i \in 4..(Len(keys) - 2) : keys[i] \in Sysvars
  /\ SubSeq(keys, Len(keys) - 1, Len(keys)) =
       <<"tokenProgramId", "AssociatedTokenProgram">>

NamesBuilt == [i \in 1..Len(last.result.built) |-> last.result.built[i].name]

\* C21: when the asset is the native one, Initialize produces the
\* instructions that create and fund an ephemeral wrapped account, then the
\* program instruction, then the unwrap sequence that closes the account and
\* sweeps the rent to the fee payer; for any other asset it produces the
\* program instruction alone.
C21_NativeInitializeWraps ==
  (last # NoCall /\ last.op = "initialize" /\ last.result.error = "")
    => IF last.input.init.native
       THEN /\ Len(NamesBuilt) >= 4
            /\ NamesBuilt[1] = "CreateAccount"
            /\ \E k \in 2..(Len(NamesBuilt) - 2) :
                 /\ NamesBuilt[k] = "Init"
                 /\ \A j \in (k + 1)..Len(NamesBuilt) : NamesBuilt[j] # "Init"
            /\ NamesBuilt[Len(NamesBuilt) - 1] = "CloseAccount"
            /\ NamesBuilt[Len(NamesBuilt)] = "Transfer"
       ELSE NamesBuilt = <<"Init">>

\* The signers a builder returned: those handed to the assembler less the
\* fee payer and the authority, which the call itself adds.
SignersReturned == SeqToSet(last.result.signers) \ {"feePayer", "authority"}

\* A redeem call that built its list.
RedeemBuilt == last # NoCall /\ last.op = "redeem" /\ last.result.error = ""

Setup == {"CreateAccount", "InitializeAccount3"}
Teardown == {"CloseAccount", "Transfer"}

\* No list holds the setup of the ephemeral account without its teardown,
\* or the teardown without the setup.
SetupIffTeardown ==
  (SeqToSet(NamesBuilt) \cap Setup # {}) <=> (SeqToSet(NamesBuilt) \cap Teardown # {})

\* The list of a redeem, by the asset of the link.
C22_ListByAsset ==
  IF Seen.native
  THEN /\ NamesBuilt = <<"CreateAccount", "InitializeAccount3", "Redeem",
                         "CloseAccount", "Transfer">>
       /\ SignersReturned = {"unwrapTokenAccount"}
  ELSE /\ NamesBuilt = <<"Redeem">>
       /\ SignersReturned = {}

FeePayerDelta(ix) ==
  IF ix.name = "CreateAccount" /\ ix.keys[1].pubkey = "feePayer"
  THEN 0 - ix.data.lamports
  ELSE IF ix.name = "Transfer" /\ ix.keys[2].pubkey = "feePayer"
  THEN ix.data.lamports
  ELSE 0

RECURSIVE FeePayerNet(_)
FeePayerNet(instructions) ==
  IF instructions = <<>> THEN 0
  ELSE FeePayerDelta(Head(instructions)) + FeePayerNet(Tail(instructions))

\* C23: in a native-asset redeem the lamports the fee payer funds into the
\* ephemeral account at creation equal the lamports the trailing sweep
\* transfers from the claimant wallet back to the fee payer: the fee payer's
\* outlay for the ephemeral account nets to zero over the whole list.
C23_RentNetsToZero ==
  (RedeemBuilt /\ client = "CashClient" /\ Seen.native)
    => /\ \E i, j \in 1..Len(last.result.built) :
            /\ i < j
            /\ last.result.built[i].name = "CreateAccount"
            /\ last.result.built[i].keys[1].pubkey = "feePayer"
            /\ last.result.built[j].name = "Transfer"
            /\ last.result.built[j].keys[1].pubkey = "wallet"
            /\ last.result.built[j].keys[2].pubkey = "feePayer"
            /\ last.result.built[i].data.lamports = last.result.built[j].data.lamports
       /\ FeePayerNet(last.result.built) = 0

\* A native-asset redeem of CashClient funded the ephemeral account with the
\* token-account rent and swept it back.
C23_Witness ==
  /\ RedeemBuilt
  /\ client = "CashClient"
  /\ Seen.native
  /\ last.result.built[1].data.lamports = kTokenProgramRent
  /\ FeePayerDelta(last.result.built[Len(last.result.built)]) = kTokenProgramRent

\* The number of times a call appears in the trace of the completed call.
TimesCalled(name) ==
  Cardinality({i \in 1..Len(last.result.trace) : last.result.trace[i] = name})

ResolutionTrace(existed) ==
  IF existed THEN <<"getAccount">>
  ELSE <<"getAccount", "getLatestBlockhashAndContext", "sendAndConfirmTransaction">>

\* A redeem of CashClient for a non-native asset that built its instruction.
TokenRedeemBuilt ==
  RedeemBuilt /\ client = "CashClient" /\ ~Seen.native

\* C25: while building a redeem for a non-native asset each of the owner's,
\* the fee wallet's and the fee payer's associated token accounts is
\* resolved inline: no transaction is sent for an account that exists,
\* exactly one create transaction is sent and confirmed for an absent one
\* before the redeem instruction is built, and the instruction uses the
\* canonical associated address in both cases.
C25_InlineResolution ==
  TokenRedeemBuilt
    => LET ix == last.result.built[1]
           shift == IF last.input.passKey THEN 1 ELSE 0
           before == last.atas
           resolved == ResolutionTrace("owner" \in before)
                       \o ResolutionTrace("feeWallet" \in before)
                       \o ResolutionTrace("feePayer" \in before)
       IN /\ last.result.created = {"owner", "feeWallet", "feePayer"} \ before
          /\ TimesCalled("sendAndConfirmTransaction")
               = Cardinality({"owner", "feeWallet", "feePayer"} \ before)
          /\ SubSeq(last.result.trace, 1, 1 + Len(resolved))
               = <<"getAccountInfo">> \o resolved
          /\ ix.keys[3].pubkey = getAssociatedTokenAddressSync("feeWallet")
          /\ ix.keys[5 + shift].pubkey = getAssociatedTokenAddressSync("owner")
          /\ ix.keys[7 + shift].pubkey = getAssociatedTokenAddressSync("feePayer")

\* A redeem found the owner's account and created the other two.
C25_Witness ==
  /\ TokenRedeemBuilt
  /\ last.atas = {"owner"}
  /\ last.result.created = {"feeWallet", "feePayer"}
  /\ TimesCalled("sendAndConfirmTransaction") = 2

-----------------------------------------------------------------------------
(* hasPaid: the payment check of the reference link and escrow clients *)

\* Largest amount and largest fee a record holds in the payment check.
MaxAmount == 2

\* Size of the link account, the argument of the rent query.
MAX_DATA_LEN == 165

\* The cluster's rent-exempt minimum for an account of the given size.
getMinimumBalanceForRentExemption(dataLen) == (dataLen + 128) * 6960

NoVault == [exists |-> FALSE, amount |-> 0]

\* getVault: the vault token account, null when it is not found.
getVault(accounts) ==
  IF accounts = {} THEN NoVault ELSE CHOOSE v \in accounts : TRUE

Returned(value) == [error |-> "", value |-> value]

Thrown(message) == [error |-> message, value |-> FALSE]

\* A variant that compares the whole lamport balance, rent included.
CashLinkReference_hasPaid_grossLamports(cashLink, vault) ==
  IF ~cashLink.exists THEN Thrown(FAILED_TO_FIND_ACCOUNT)
  ELSE IF ~cashLink.native
    THEN IF ~vault.exists THEN Returned(FALSE)
         ELSE Returned(vault.amount >= cashLink.amount + cashLink.fee)
    ELSE Returned(cashLink.lamports >= cashLink.amount + cashLink.fee)

CashLinkReference_hasPaid(cashLink, vault) ==
  IF ~cashLink.exists THEN Thrown(FAILED_TO_FIND_ACCOUNT)
  ELSE IF ~cashLink.native
    THEN IF ~vault.exists THEN Returned(FALSE)
         ELSE Returned(vault.amount >= cashLink.amount + cashLink.fee)
    ELSE LET minBalance == getMinimumBalanceForRentExemption(MAX_DATA_LEN)
         IN IF cashLink.lamports >= minBalance
              THEN Returned(cashLink.lamports - minBalance
                              >= cashLink.amount + cashLink.fee)
              ELSE Returned(FALSE)

EscrowClient_hasPaid(escrow, vault) ==
  IF ~escrow.exists \/ ~vault.exists THEN Returned(FALSE)
  ELSE Returned(vault.amount >= escrow.amount + escrow.fee)

\* The records the payment check may meet: absent, or holding any amount and
\* fee, a token link funded at the rent-exempt minimum, a native link one
\* lamport short of it or exactly at it.
PaidRecords(c) ==
  {[exists |-> FALSE, native |-> FALSE, amount |-> 0, fee |-> 0, lamports |-> 0]}
  \cup
  {[exists |-> TRUE, native |-> FALSE, amount |-> a, fee |-> f,
    lamports |-> getMinimumBalanceForRentExemption(MAX_DATA_LEN)] :
     a \in 0..MaxAmount, f \in 0..MaxAmount}
  \cup
  {[exists |-> TRUE, native |-> TRUE, amount |-> a, fee |-> f,
    lamports |-> getMinimumBalanceForRentExemption(MAX_DATA_LEN) - short] :
     a \in (IF c = "EscrowClient" THEN {} ELSE 0..MaxAmount),
     f \in 0..MaxAmount, short \in {0, 1}}

InitHasPaid ==
  /\ client \in {"CashLinkClientReference", "EscrowClient"}
  /\ link \in PaidRecords(client)
  /\ atas = {}
  /\ last = NoCall
  /\ wire = NoSend
  /\ running = [p \in Procs |-> Idle]

\* The vault token account of a token link comes into being, empty.
ProgramCreateVault ==
  /\ last = NoCall
  /\ ~link.native
  /\ atas = {}
  /\ atas' = {[exists |-> TRUE, amount |-> 0]}
  /\ UNCHANGED <<client, link, last, wire, running>>

\* One more unit reaches the vault: a token into the vault token account, a
\* lamport into the link account of a native link.
ProgramDeposit ==
  /\ last = NoCall
  /\ IF link.native
       THEN /\ link.lamports < getMinimumBalanceForRentExemption(MAX_DATA_LEN)
                                 + 2 * MaxAmount + 1
            /\ link' = [link EXCEPT !.lamports = @ + 1]
            /\ atas' = atas
       ELSE /\ atas # {}
            /\ getVault(atas).amount < 2 * MaxAmount + 1
            /\ atas' = {[getVault(atas) EXCEPT !.amount = @ + 1]}
            /\ link' = link
  /\ UNCHANGED <<client, last, wire, running>>

hasPaid ==
  /\ last = NoCall
  /\ last' = [op |-> "hasPaid",
              result |-> IF client = "EscrowClient"
                           THEN EscrowClient_hasPaid(link, getVault(atas))
                           ELSE CashLinkReference_hasPaid(link, getVault(atas))]
  /\ UNCHANGED <<client, link, atas, wire, running>>

NextHasPaid ==
  \/ ProgramCreateVault
  \/ ProgramDeposit
  \/ hasPaid
  \/ Return

SpecHasPaid == InitHasPaid /\ [][NextHasPaid]_vars

\* The balance the vault of the record holds now: the tokens of the vault
\* token account, or the lamports of a native link above the rent-exempt
\* minimum.
VaultBalance ==
  IF link.native
    THEN link.lamports - getMinimumBalanceForRentExemption(MAX_DATA_LEN)
    ELSE getVault(atas).amount

VaultMissing ==
  IF link.native
    THEN link.lamports < getMinimumBalanceForRentExemption(MAX_DATA_LEN)
    ELSE atas = {}

\* C26: for a record that exists, hasPaid returns, and returns true exactly
\* when the vault's balance (token amount of the vault account, or the link's
\* lamports minus the rent-exempt minimum for a native link) is at least
\* amount + fee; it returns false when the vault token account is absent or
\* the lamports are below the rent-exempt minimum.
C26_HasPaidComparesBalance ==
  (last.op = "hasPaid" /\ link.exists)
    => /\ last.result.error = ""
       /\ VaultMissing => ~last.result.value
       /\ ~VaultMissing
            => (last.result.value <=> VaultBalance >= link.amount + link.fee)

\* A native link holding exactly amount + fee above the rent-exempt minimum
\* is found paid.
C26_Witness ==
  /\ last.op = "hasPaid"
  /\ link.exists /\ link.native
  /\ link.amount + link.fee > 0
  /\ VaultBalance = link.amount + link.fee
  /\ last.result.value

-----------------------------------------------------------------------------
(* Recovery from a failure on the record's state *)

\* The InvalidState failures: the record's state forbids the operation.
InvalidStateErrors ==
  {ACCOUNT_ALREADY_CANCELED, ACCOUNT_ALREADY_SETTLED, ACCOUNT_NOT_CANCELED,
   ACCOUNT_HAS_REDEMPTIONS}

StateOperations == {"redeem", "cancel", "cancelAndClose", "close"}

\* Some request makes the operation build its payload for the record.
Constructible(c, op, l, a) ==
  \E input \in (IF op = "redeem" THEN RedeemInputs(c) ELSE CommonInputs(c)) :
    Handle(c, op, l, a, input).error = ""

FailedOnState ==
  /\ client # "EscrowClient"
  /\ last.op \in StateOperations
  /\ last.result.error \in InvalidStateErrors

-----------------------------------------------------------------------------
(* cancelAndClose *)

IsCancel(ix) == ix.programId = "Cash" /\ ix.name = "Cancel"

IsClose(ix) == ix.programId = "Cash" /\ ix.name = "Close"

CancelAndCloseOfLink ==
  /\ client # "EscrowClient"
  /\ last.op = "cancelAndClose"

\* C28: cancelAndClose of a link client applies cancel's state checks as soon
\* as the record is loaded: on a link already Canceled or Redeemed it fails
\* with the matching error, whatever totalRedemptions is, having done nothing
\* but load the record; and every close instruction in the list it returns
\* has a cancel instruction immediately before it.
C28_CancelAndCloseChecksFirst ==
  CancelAndCloseOfLink
    => LET list == last.result.instructions
       IN /\ (Seen.exists /\ link.state = CanceledStateOf(client))
               => /\ last.result.error = ACCOUNT_ALREADY_CANCELED
                  /\ last.result.trace = <<"getAccountInfo">>
                  /\ list = <<>>
          /\ (Seen.exists /\ link.state = "Redeemed")
               => /\ last.result.error = ACCOUNT_ALREADY_SETTLED
                  /\ last.result.trace = <<"getAccountInfo">>
                  /\ list = <<>>
          /\ \A i \in 1..Len(list) :
               IsClose(list[i]) => i > 1 /\ IsCancel(list[i - 1])

\* CashClient.cancelAndClose has been refused on a canceled link that was
\* never redeemed.
C28_Witness ==
  /\ CancelAndCloseOfLink
  /\ client = "CashClient"
  /\ Seen.exists
  /\ link.state = CashState.Canceled
  /\ link.totalRedemptions = 0
  /\ last.result.error = ACCOUNT_ALREADY_CANCELED

\* CashClient.cancelAndClose has returned cancel followed by close.
C28_WitnessClose ==
  /\ CancelAndCloseOfLink
  /\ client = "CashClient"
  /\ Len(last.result.instructions) >= 2
  /\ IsCancel(last.result.instructions[1])
  /\ IsClose(last.result.instructions[2])

-----------------------------------------------------------------------------
(* The pass-key entry of CashClient.redeem *)

CashClientRedeemCalled == client = "CashClient" /\ last.op = "redeem"

\* The positions of the pass key in the account list of the redeem
\* instruction the call built.
PassKeyEntries ==
  LET ix == CHOOSE i \in RedeemInstructionsBuilt : TRUE
  IN {j \in 1..Len(ix.keys) : ix.keys[j].pubkey = "passKey"}

\* C29: in CashClient.redeem the pass-key entry, flagged as a required
\* signer, is in the account list exactly when the request supplies passKey;
\* whether the on-chain record holds a pass key changes nothing in the
\* outcome of the call, so nothing is compared locally with the recorded key.
C29_PassKeyEntryFollowsRequest ==
  CashClientRedeemCalled
    => /\ last.result.error = ""
            => LET ix == CHOOSE i \in RedeemInstructionsBuilt : TRUE
               IN /\ RedeemInstructionsBuilt # {}
                  /\ (PassKeyEntries # {}) <=> last.input.passKey
                  /\ \A j \in PassKeyEntries :
                       ix.keys[j].isSigner /\ ~ix.keys[j].isWritable
       /\ Handle(client, "redeem", [link EXCEPT !.passKey = ~@], last.atas,
                 last.input) = last.result

\* A request without a pass key was built against a record that holds one:
\* the list has no pass-key entry.
C29_Witness ==
  /\ CashClientRedeemCalled
  /\ link.exists /\ link.passKey
  /\ ~last.input.passKey
  /\ last.result.error = ""
  /\ RedeemInstructionsBuilt # {}
  /\ PassKeyEntries = {}

\* A request with a pass key was built against a record that holds none.
C29_WitnessSupplied ==
  /\ CashClientRedeemCalled
  /\ link.exists /\ ~link.passKey
  /\ last.input.passKey
  /\ last.result.error = ""
  /\ PassKeyEntries # {}

-----------------------------------------------------------------------------
(* CashProgram.findReferralKey *)

\* Length of a key buffer and largest byte value in the derivation check.
KeyLen == 2
MaxByte == 3

\* publicKey.toBuffer(): the bytes of a key.
Buffers == [1..KeyLen -> 0..MaxByte]

\* Buffer.compare: -1, 0 or 1 by the first byte that differs.
RECURSIVE Buffer_compareFrom(_, _, _)
Buffer_compareFrom(a, b, i) ==
  IF i > Len(a) \/ i > Len(b)
    THEN (IF Len(a) < Len(b) THEN -1 ELSE IF Len(a) > Len(b) THEN 1 ELSE 0)
  ELSE IF a[i] < b[i] THEN -1
  ELSE IF a[i] > b[i] THEN 1
  ELSE Buffer_compareFrom(a, b, i + 1)

Buffer_compare(a, b) == Buffer_compareFrom(a, b, 1)

\* [x, y].sort(Buffer.compare): the pair is exchanged when x compares above y.
sortedBuffers(x, y) ==
  IF Buffer_compare(x, y) > 0 THEN <<y, x>> ELSE <<x, y>>

RECURSIVE WeightedSum(_, _)
WeightedSum(bytes, i) ==
  IF i > Len(bytes) THEN 0 ELSE i * bytes[i] + WeightedSum(bytes, i + 1)

\* createProgramAddressSync: the digest of the seeds, the nonce and the
\* program id, refused when the digest is a point of the curve.  The digest
\* stands for the hash: it differs whenever the bytes hashed differ, and
\* about half of the digests are on the curve.
createProgramAddressSync(prefix, seeds, nonce) ==
  [onCurve |-> (WeightedSum(seeds, 1) + nonce) % 2 = 0,
   address |-> [prefix |-> prefix, seeds |-> seeds, nonce |-> nonce]]

\* findProgramAddressSync: the nonce counts down from 255 to the first one
\* whose address is off the curve.
RECURSIVE findProgramAddressFrom(_, _, _)
findProgramAddressFrom(prefix, seeds, nonce) ==
  IF nonce = 0 THEN [address |-> [prefix |-> "", seeds |-> <<>>, nonce |-> 0],
                     bump |-> 0]
  ELSE IF createProgramAddressSync(prefix, seeds, nonce).onCurve
  THEN findProgramAddressFrom(prefix, seeds, nonce - 1)
  ELSE [address |-> createProgramAddressSync(prefix, seeds, nonce).address,
        bump |-> nonce]

\* A variant that hands the two buffers over in the order of the arguments.
CashProgram_findReferralKey_unsorted(referrer, referee) ==
  findProgramAddressFrom("referral", referrer \o referee, 255)

CashProgram_findReferralKey(referrer, referee) ==
  LET sorted == sortedBuffers(referrer, referee)
  IN findProgramAddressFrom("referral", sorted[1] \o sorted[2], 255)

\* A caller holds two wallets whose referral address it is about to derive.
InitReferral ==
  /\ client = "CashClient"
  /\ link = NoLink
  /\ atas = {}
  /\ \E referrer \in Buffers, referee \in Buffers :
       last = [op |-> "wallets", referrer |-> referrer, referee |-> referee,
               result |-> findProgramAddressFrom("", <<>>, 0)]
  /\ wire = NoSend
  /\ running = [p \in Procs |-> Idle]

findReferralKey ==
  /\ last.op = "wallets"
  /\ last' = [last EXCEPT
                !.op = "findReferralKey",
                !.result = CashProgram_findReferralKey(last.referrer, last.referee)]
  /\ UNCHANGED <<client, link, atas, wire, running>>

\* The caller turns to the same pair of wallets in the other order.
exchangeWallets ==
  /\ last.op = "findReferralKey"
  /\ last' = [last EXCEPT
                !.op = "wallets",
                !.result = findProgramAddressFrom("", <<>>, 0),
                !.referrer = last.referee,
                !.referee = last.referrer]
  /\ UNCHANGED <<client, link, atas, wire, running>>

NextReferral ==
  \/ findReferralKey
  \/ exchangeWallets

SpecReferral == InitReferral /\ [][NextReferral]_vars

\* C30: the referral address is symmetric in its two wallets:
\* findReferralKey(a, b) and findReferralKey(b, a) return the same address
\* and the same bump, because the derivation takes the two buffers in
\* ascending order whatever the order of the arguments.
C30_ReferralKeySymmetric ==
  last.op = "findReferralKey"
    => /\ last.result = CashProgram_findReferralKey(last.referee, last.referrer)
       /\ last.result.address.seeds
            = sortedBuffers(last.referee, last.referrer)[1]
              \o sortedBuffers(last.referee, last.referrer)[2]
       /\ Buffer_compare(sortedBuffers(last.referrer, last.referee)[1],
                         sortedBuffers(last.referrer, last.referee)[2]) <= 0

\* The key was derived for a referrer that compares above the referee: the
\* buffers were exchanged, and the bump is not the first nonce tried.
C30_Witness ==
  /\ last.op = "findReferralKey"
  /\ Buffer_compare(last.referrer, last.referee) > 0
  /\ last.result.address.seeds = last.referee \o last.referrer
  /\ last.result.bump = 254

====
